---- MODULE Spec2Model ----
(***************************************************************************)
(* Model of the configuration-repair loop of swebench/agents:             *)
(*   - ErrorAnalyzer (utils/error_analyzer.py): classification of logs    *)
(*   - ConfigModel (models/config_model.py): directive application        *)
(*   - ConfigGeneratorAgent (config_generator.py): initial configuration  *)
(*   - DockerValidatorAgent (docker_validator.py): validate and the       *)
(*     bounded build / run / classify / fix loop                          *)
(* Log contents and shell commands are TLA+ strings; the regular          *)
(* expressions of the analyzer are computed on their characters.          *)
(***************************************************************************)
EXTENDS Naturals, Integers, Sequences, FiniteSets, TLC

(***************************************************************************)
(* Bounds of the model.                                                    *)
(***************************************************************************)
\* largest max_iterations a session is started with
MaxIterations == 3
\* largest number of lines of a log handed to an analyzer entry point
MaxLogLines == 2
\* largest number of directives applied to one configuration
MaxDirectives == 3

\* Python's None, where the field it stands in holds strings otherwise
None == "None"

(***************************************************************************)
(* Strings: Python's `in`, str.find and re.search on literal text.        *)
(***************************************************************************)
CharAt(s, i) == SubSeq(s, i, i)

\* s[i:] starts with the literal p (i is 1-based)
StartsAt(s, p, i) == i >= 1 /\ i + Len(p) - 1 <= Len(s) /\ SubSeq(s, i, i + Len(p) - 1) = p

\* positions at which the literal p occurs in s
Occurrences(s, p) == {i \in 1..(Len(s) - Len(p) + 1) : StartsAt(s, p, i)}

\* Python `p in s`
Contains(s, p) == \E i \in 1..(Len(s) - Len(p) + 1) : StartsAt(s, p, i)

\* the least element of a non-empty set of positions
Least(S) == CHOOSE i \in S : \A j \in S : i <= j

\* \S of Python's re: anything but white space
IsSpace(c) == c \in {" ", "\n", "\t", "\r"}

\* the end (inclusive) of the longest run starting at i of characters that
\* are not in the set stop; i - 1 when the run is empty
RECURSIVE RunEnd(_, _, _)
RunEnd(s, i, stop) ==
    IF i > Len(s) \/ CharAt(s, i) \in stop THEN i - 1 ELSE RunEnd(s, i + 1, stop)

\* a[0] + sep + a[1] + ... : Python's sep.join(a)
RECURSIVE Join(_, _)
Join(a, sep) ==
    IF Len(a) = 0 THEN ""
    ELSE IF Len(a) = 1 THEN a[1]
    ELSE a[1] \o sep \o Join(Tail(a), sep)

(***************************************************************************)
(* ErrorAnalyzer: the signatures (error_analyzer.py:20-43).  Each operator *)
(* is pattern.search(log_content) is not None for one regular expression.  *)
(***************************************************************************)
\* the positions where the literal p is followed by at least one character
\* outside the set stop
FollowedBy(s, p, stop) ==
    {i \in Occurrences(s, p) : i + Len(p) <= Len(s) /\ CharAt(s, i + Len(p)) \notin stop}

\* head.*tail of Python's re: tail after head, no line break in between
DotStar(s, head, tail) ==
    \E i \in Occurrences(s, head) :
        \E j \in Occurrences(s, tail) :
            j >= i + Len(head) /\ j + Len(tail) - 1 <= RunEnd(s, i + Len(head), {"\n"})

WhiteSpace == {" ", "\n", "\t", "\r"}
UnableToLocate == "E: Unable to locate package "
CannotFindModule == "Cannot find module '"

\* r"E: Unable to locate package (\S+)"
MissingPackageAt(s) == FollowedBy(s, UnableToLocate, WhiteSpace)

\* mutant: group(1) of the rightmost match
MissingPackageGroupLast(s) ==
    LET S == MissingPackageAt(s)
        j == (CHOOSE i \in S : \A k \in S : i >= k) + Len(UnableToLocate)
    IN  SubSeq(s, j, RunEnd(s, j, WhiteSpace))

\* group(1) of the leftmost match of the missing_package signature
MissingPackageGroup(s) ==
    LET j == Least(MissingPackageAt(s)) + Len(UnableToLocate)
    IN  SubSeq(s, j, RunEnd(s, j, WhiteSpace))

\* r"Cannot find module '([^']+)'"
MissingModuleAt(s) ==
    {i \in FollowedBy(s, CannotFindModule, {"'"}) :
        RunEnd(s, i + Len(CannotFindModule), {"'"}) < Len(s)}

\* mutant: the group runs on through the closing quote
MissingModuleGroupQuoted(s) ==
    LET j == Least(MissingModuleAt(s)) + Len(CannotFindModule)
    IN  SubSeq(s, j, RunEnd(s, j, {"'"}) + 1)

\* group(1) of the leftmost match of the missing_module signature
MissingModuleGroup(s) ==
    LET j == Least(MissingModuleAt(s)) + Len(CannotFindModule)
    IN  SubSeq(s, j, RunEnd(s, j, {"'"}))

\* mutant: the dict without the missing_package signature
BUILD_ERROR_PATTERNS_NoPackage ==
    <<"node_not_found", "npm_not_found", "permission_denied", "network_timeout">>

BUILD_ERROR_PATTERNS ==
    <<"missing_package", "node_not_found", "npm_not_found", "permission_denied",
      "network_timeout">>

INSTALL_ERROR_PATTERNS ==
    <<"missing_module", "npm_error", "version_conflict", "missing_python", "gyp_error",
      "missing_binary">>

TEST_ERROR_PATTERNS == <<"timeout", "chromium_missing", "display_error">>

\* pattern.search(log_content) for the pattern registered under name
PatternSearch(name, s) ==
    CASE name = "missing_package" -> MissingPackageAt(s) # {}
      [] name = "node_not_found" ->
            Contains(s, "node: not found") \/ Contains(s, "node: command not found")
      [] name = "npm_not_found" ->
            Contains(s, "npm: not found") \/ Contains(s, "npm: command not found")
      [] name = "permission_denied" ->
            Contains(s, "EACCES") \/ Contains(s, "Permission denied")
      [] name = "network_timeout" ->
            Contains(s, "network timeout") \/ Contains(s, "ETIMEDOUT")
                \/ Contains(s, "ECONNREFUSED")
      [] name = "missing_module" -> MissingModuleAt(s) # {}
      [] name = "npm_error" -> FollowedBy(s, "npm ERR! ", {"\n"}) # {}
      [] name = "version_conflict" ->
            Contains(s, "ERESOLVE unable to resolve dependency tree")
      [] name = "missing_python" -> DotStar(s, "python", "not found")
      [] name = "gyp_error" -> Contains(s, "gyp ERR!")
      [] name = "missing_binary" ->
            Contains(s, "command not found") \/ Contains(s, "cannot execute binary file")
      [] name = "timeout" -> Contains(s, "Timeout error") \/ Contains(s, "Timeout exceeded")
      [] name = "chromium_missing" ->
            DotStar(s, "Chromium", "not found") \/ DotStar(s, "Chrome", "not found")
      [] name = "display_error" ->
            Contains(s, "DISPLAY") \/ Contains(s, "X11") \/ Contains(s, "xvfb")

\* the for ... if match: ... break loops: the first pattern of the dict, in
\* its declared order, that matches; None when the loop ends without a match
RECURSIVE FirstMatchFrom(_, _, _)
FirstMatchFrom(patterns, s, k) ==
    IF k > Len(patterns) THEN None
    ELSE IF PatternSearch(patterns[k], s) THEN patterns[k]
    ELSE FirstMatchFrom(patterns, s, k + 1)

FirstMatch(patterns, s) == FirstMatchFrom(patterns, s, 1)

(***************************************************************************)
(* Fix directives and analysis results (the dicts the analyzer returns).   *)
(* A key the dict lacks reads as None, which is what fix.get(key) gives.   *)
(***************************************************************************)
Fix(fix_type, fld, value, reason) ==
    [fix_type |-> fix_type, field |-> fld, value |-> value, reason |-> reason]

\* the empty dict {}: the only falsy suggested_fix
EmptyFix == Fix(None, None, None, None)

Analysis(error_type, error_message, suggested_fix) ==
    [error_type |-> error_type, error_message |-> error_message,
     suggested_fix |-> suggested_fix]

\* a log file: absent, present but unreadable, or readable with its text
Missing == [state |-> "missing", content |-> ""]
Unreadable == [state |-> "unreadable", content |-> ""]
Readable(text) == [state |-> "ok", content |-> text]

(***************************************************************************)
(* ErrorAnalyzer: the entry points.  log_snippets is left out: nothing     *)
(* reads it.  The path an error message quotes is left out of the message. *)
(***************************************************************************)
NoError == Analysis(None, "", EmptyFix)

\* analyze_build_log, from the first pattern of BUILD_ERROR_PATTERNS that
\* matched (None: no match) to the generic failure check
BuildDiagnosis(s, hit) ==
    CASE hit = "missing_package" ->
            Analysis(hit, "Missing system package: " \o MissingPackageGroup(s),
                     Fix("remove_apt_package", "apt_pkgs", MissingPackageGroup(s),
                         "Package not found in apt repositories"))
      [] hit \in {"node_not_found", "npm_not_found"} ->
            Analysis(hit, "Node.js installation failed",
                     Fix("change_version", "node_version", "18",
                         "Fallback to stable Node version"))
      [] hit = "network_timeout" ->
            Analysis(hit, "Network timeout during build",
                     Fix("retry", None, None, "Transient network error"))
      [] hit = None /\ Contains(s, "Error building image") ->
            Analysis("build_failure_generic", "Docker build failed (unknown cause)", EmptyFix)
      [] OTHER -> Analysis(hit, "", EmptyFix)

analyze_build_log(log) ==
    IF log.state = "missing" THEN Analysis("log_not_found", "Build log not found", EmptyFix)
    ELSE IF log.state = "unreadable"
    THEN Analysis("log_read_error", "Failed to read log", EmptyFix)
    ELSE IF Contains(log.content, "Image built successfully") THEN NoError
    ELSE BuildDiagnosis(log.content, FirstMatch(BUILD_ERROR_PATTERNS, log.content))

\* the install-failure markers of analyze_test_output
InstallFailed(s) == Contains(s, ">>>>> Init Failed") \/ Contains(s, "INSTALL_FAIL")

\* the test-runner markers of analyze_test_output
TestRunnerMarkers == {"npm test", "jest", "mocha", "vitest", "Test Suites"}
TestsRan(s) == \E marker \in TestRunnerMarkers : Contains(s, marker)

\* the state of the analysis dict after the install-failure branch
InstallDiagnosis(s, hit) ==
    CASE hit = "missing_module" ->
            Analysis("install_failure", "Missing module: " \o MissingModuleGroup(s),
                     Fix("add_command", "install", "npm install " \o MissingModuleGroup(s),
                         "Module " \o MissingModuleGroup(s) \o " not found"))
      [] hit = "version_conflict" ->
            Analysis("install_failure", "Dependency version conflict",
                     Fix("add_npm_flag", "install", "--legacy-peer-deps",
                         "Resolve peer dependency conflicts"))
      [] hit = "missing_python" ->
            Analysis("install_failure", "Python not found (needed for native modules)",
                     Fix("add_apt_package", "apt_pkgs", "python3", "Required for node-gyp"))
      [] hit = "gyp_error" ->
            Analysis("install_failure", "node-gyp compilation error",
                     Fix("add_apt_package", "apt_pkgs", "build-essential",
                         "Required for native module compilation"))
      [] OTHER -> Analysis("install_failure", "", EmptyFix)

\* the loop over TEST_ERROR_PATTERNS, which writes into the analysis dict a
\* that the code reached it with
TestDiagnosis(a, hit) ==
    CASE hit = "chromium_missing" ->
            Analysis(hit, "Chromium browser not found",
                     Fix("add_apt_package", "apt_pkgs", "chromium",
                         "Required for browser tests"))
      [] hit = "display_error" ->
            Analysis(hit, "Display/X11 error",
                     Fix("add_apt_package", "apt_pkgs", "xvfb",
                         "Required for headless browser tests"))
      [] hit = "timeout" -> Analysis(hit, a.error_message, a.suggested_fix)
      [] OTHER -> a

analyze_test_output(log) ==
    IF log.state = "missing" THEN Analysis("log_not_found", "Test output not found", EmptyFix)
    ELSE IF log.state = "unreadable"
    THEN Analysis("log_read_error", "Failed to read log", EmptyFix)
    ELSE LET s == log.content
         IN  IF InstallFailed(s)
             THEN TestDiagnosis(InstallDiagnosis(s, FirstMatch(INSTALL_ERROR_PATTERNS, s)),
                                FirstMatch(TEST_ERROR_PATTERNS, s))
             ELSE IF TestsRan(s) THEN NoError
             ELSE TestDiagnosis(NoError, FirstMatch(TEST_ERROR_PATTERNS, s))

\* the value of the increase_timeout directive is the number 600, written as
\* a string here because every other directive value is one
analyze_run_log(log) ==
    IF log.state = "missing" THEN NoError
    ELSE IF log.state = "unreadable"
    THEN Analysis("log_read_error", "Failed to read log", EmptyFix)
    ELSE IF Contains(log.content, "Timeout error")
    THEN Analysis("timeout", "Test execution timed out",
                  Fix("increase_timeout", "timeout", "600",
                      "Tests taking longer than expected"))
    ELSE NoError

\* a run's log directory: image_build_dir is "absent", a plain "directory"
\* or a "symlink" to the build directory, whose build_image.log is build_log
LogDir(link, build_log, test_output, run_log) ==
    [image_build_dir |-> link, build_log |-> build_log, test_output |-> test_output,
     run_log |-> run_log]

\* Path.exists() of a log file
Exists(log) == log.state # "missing"

\* `if x_analysis["error_type"]`: neither None nor the empty string
ReportsError(a) == a.error_type # None /\ a.error_type # ""

analyze_logs(dir) ==
    LET build_analysis == analyze_build_log(dir.build_log)
        test_analysis == analyze_test_output(dir.test_output)
        run_analysis == analyze_run_log(dir.run_log)
    IN  IF /\ dir.image_build_dir = "symlink"
           /\ Exists(dir.build_log)
           /\ ReportsError(build_analysis)
        THEN build_analysis
        ELSE IF Exists(dir.test_output)
        THEN IF ReportsError(test_analysis) THEN test_analysis ELSE NoError
        ELSE IF Exists(dir.run_log) /\ ReportsError(run_analysis)
        THEN run_analysis
        ELSE NoError

(***************************************************************************)
(* ConfigModel (models/config_model.py).  build is Optional[List[str]]:   *)
(* NoBuild is None, Build(<<>>) the empty list.  docker_specs and env_vars *)
(* are functions from their keys.  repo and version never change and are   *)
(* carried by the session, not by this record.                             *)
(***************************************************************************)
NoBuild == [is_none |-> TRUE, cmds |-> <<>>]
Build(cmds) == [is_none |-> FALSE, cmds |-> cmds]

ConfigModel(install, test_cmd, build, docker_specs, apt_pkgs, env_vars) ==
    [install |-> install, test_cmd |-> test_cmd, build |-> build,
     docker_specs |-> docker_specs, apt_pkgs |-> apt_pkgs, env_vars |-> env_vars]

\* mutant: the membership test always fails
InListNever(x, lst) == FALSE

\* mutant: only the first element is compared
InListFirstOnly(x, lst) == lst # <<>> /\ lst[1] = x

\* mutant: only the last element is compared
InListLastOnly(x, lst) == lst # <<>> /\ lst[Len(lst)] = x

\* Python `x in lst`
InList(x, lst) == \E i \in 1..Len(lst) : lst[i] = x

\* mutant: everything up to the first occurrence of x is dropped with it
RemoveThrough(lst, x) ==
    SubSeq(lst, Least({k \in 1..Len(lst) : lst[k] = x}) + 1, Len(lst))

\* list.remove(x): drops the first occurrence of x
RemoveFirst(lst, x) ==
    LET i == Least({k \in 1..Len(lst) : lst[k] = x})
    IN  SubSeq(lst, 1, i - 1) \o SubSeq(lst, i + 1, Len(lst))

\* mutant: the dict is replaced by one that holds the new key only
SetKeyAlone(d, key, value) == (key :> value)

\* d[key] = value on a dict
SetKey(d, key, value) == (key :> value) @@ d

\* ConfigModel.to_constants_entry: a dict, with the keys build and apt-pkgs
\* only for a non-empty list
to_constants_entry(c) ==
    LET keys == {"install", "test_cmd", "docker_specs"}
                    \cup (IF ~c.build.is_none /\ c.build.cmds # <<>> THEN {"build"} ELSE {})
                    \cup (IF c.apt_pkgs # <<>> THEN {"apt-pkgs"} ELSE {})
    IN  [k \in keys |->
            CASE k = "install" -> c.install
              [] k = "test_cmd" -> c.test_cmd
              [] k = "docker_specs" -> c.docker_specs
              [] k = "build" -> c.build.cmds
              [] k = "apt-pkgs" -> c.apt_pkgs]

\* mutant: the commands that do not get the flag are dropped
AddNpmFlagOnly(install, value) ==
    LET flagged == {i \in 1..Len(install) :
                       Contains(install[i], "npm install") /\ ~Contains(install[i], value)}
        Nth(k) == CHOOSE i \in flagged : Cardinality({j \in flagged : j < i}) = k - 1
    IN  [k \in 1..Cardinality(flagged) |-> install[Nth(k)] \o " " \o value]

\* the add_npm_flag branch: every install command that contains
\* "npm install" and not the flag gets " " + flag appended
AddNpmFlag(install, value) ==
    [i \in 1..Len(install) |->
        IF Contains(install[i], "npm install") /\ ~Contains(install[i], value)
        THEN install[i] \o " " \o value
        ELSE install[i]]

\* the fix types update_from_fix has a branch for
HandledFixTypes ==
    {"add_apt_package", "remove_apt_package", "change_version", "add_command",
     "modify_test_cmd", "add_npm_flag"}

\* ConfigModel.update_from_fix: the configuration after the in-place update
update_from_fix(c, fix) ==
    LET fix_type == fix.fix_type
        fld == fix.field
        value == fix.value
    IN  CASE fix_type = "add_apt_package" ->
                IF ~InList(value, c.apt_pkgs)
                THEN [c EXCEPT !.apt_pkgs = Append(@, value)] ELSE c
          [] fix_type = "remove_apt_package" ->
                IF InList(value, c.apt_pkgs)
                THEN [c EXCEPT !.apt_pkgs = RemoveFirst(@, value)] ELSE c
          [] fix_type = "change_version" ->
                IF fld \in {"node_version", "pnpm_version"}
                THEN [c EXCEPT !.docker_specs = SetKey(@, fld, value)] ELSE c
          [] fix_type = "add_command" ->
                IF fld = "install"
                THEN IF ~InList(value, c.install)
                     THEN [c EXCEPT !.install = Append(@, value)] ELSE c
                ELSE IF fld = "build"
                THEN IF ~InList(value, c.build.cmds)
                     THEN [c EXCEPT !.build = Build(Append(c.build.cmds, value))]
                     ELSE [c EXCEPT !.build = Build(c.build.cmds)]
                ELSE c
          [] fix_type = "modify_test_cmd" -> [c EXCEPT !.test_cmd = value]
          [] fix_type = "add_npm_flag" -> [c EXCEPT !.install = AddNpmFlag(@, value)]
          [] OTHER -> c

(***************************************************************************)
(* RepoModel and ConfigGeneratorAgent (config_generator.py).  Of the      *)
(* descriptor, the fields the generator reads.                             *)
(***************************************************************************)
RepoModel(package_manager, node_version, install_command, build_command, test_command, system_deps, has_build_step) ==
    [package_manager |-> package_manager, node_version |-> node_version,
     install_command |-> install_command, build_command |-> build_command,
     test_command |-> test_command, system_deps |-> system_deps,
     env_vars |-> <<>>, has_build_step |-> has_build_step]

\* the descriptors sessions start from: what RepoAnalyzerAgent yields for an
\* npm project without build script and system packages, and for a pnpm
\* project with a build script that depends on puppeteer
Descriptors ==
    {RepoModel("npm", "20", <<"npm install">>, None, "npm test", <<>>, FALSE),
     RepoModel("pnpm", "18", <<"pnpm install">>, "npm run build", "npm run test",
               <<"chromium", "libx11-xcb1", "libxcomposite1">>, TRUE)}

_generate_install_commands(repo_model) ==
    <<IF repo_model.install_command # <<>> THEN repo_model.install_command[1]
      ELSE "npm install">>

\* mutant: has_build_step is not consulted
_generate_build_commands_any(repo_model) ==
    IF repo_model.build_command = None \/ repo_model.build_command = "" THEN NoBuild
    ELSE Build(<<repo_model.build_command>>)

_generate_build_commands(repo_model) ==
    IF ~repo_model.has_build_step THEN NoBuild
    ELSE IF repo_model.build_command = None \/ repo_model.build_command = "" THEN NoBuild
    ELSE Build(<<repo_model.build_command>>)

_generate_docker_specs(repo_model) ==
    IF repo_model.package_manager = "pnpm"
    THEN [node_version |-> repo_model.node_version, _variant |-> "js_2",
          pnpm_version |-> "9.5.0"]
    ELSE [node_version |-> repo_model.node_version, _variant |-> "js_2"]

_generate_config(repo_model) ==
    ConfigModel(_generate_install_commands(repo_model), repo_model.test_command,
                _generate_build_commands(repo_model), _generate_docker_specs(repo_model),
                repo_model.system_deps, repo_model.env_vars)

(***************************************************************************)
(* The inputs of a session: what the build and run collaborators leave     *)
(* behind.  Each text is the content of one log file.                      *)
(***************************************************************************)
BuildLogTexts ==
    {"E: Unable to locate package libxcomposite1\nError building image",
     "E: Unable to locate package libfoo-dev",
     "/bin/sh: 1: npm: command not found",
     "connect ETIMEDOUT 104.16.0.35:443",
     "EACCES: permission denied",
     "Error building image",
     "Step 1/5 : FROM ubuntu:22.04",
     "Image built successfully"}

\* the log _build_images points to after a failed build
BuildFailureLogs == {Missing, Unreadable} \cup {Readable(t) : t \in BuildLogTexts}

TestOutputTexts ==
    {">>>>> Init Failed\nError: Cannot find module 'left-pad'",
     "INSTALL_FAIL\nERESOLVE unable to resolve dependency tree",
     "INSTALL_FAIL",
     "Test Suites: 1 passed, 1 total",
     "Timeout exceeded",
     "Chromium revision is not found",
     "exit code 1"}

\* the log directories run_instance leaves: every test output beside the
\* log of a successful build, and the directories in which the build log
\* or the run log decides
LogDirs ==
    {LogDir("symlink", Readable("Image built successfully"), t, Missing) :
        t \in {Missing, Unreadable} \cup {Readable(x) : x \in TestOutputTexts}}
    \cup
    {LogDir("absent", Missing, Missing, Missing),
     LogDir("symlink", Readable("EACCES: permission denied"),
            Readable("Test Suites: 1 passed, 1 total"), Missing),
     LogDir("directory", Readable("EACCES: permission denied"),
            Readable("Test Suites: 1 passed, 1 total"), Missing),
     LogDir("absent", Missing, Missing, Readable("Timeout error")),
     LogDir("absent", Missing, Readable("Test Suites: 1 passed, 1 total"),
            Readable("Timeout error")),
     LogDir("absent", Missing, Missing, Unreadable)}

(***************************************************************************)
(* DockerValidatorAgent (docker_validator.py): validate and                *)
(* _validation_loop, one step per call of a collaborator.                  *)
(***************************************************************************)
VARIABLES
    pc,             \* the position in validate / _validation_loop
    max_iterations, \* self.max_iterations
    state,          \* the AgentState dict
    config_model,   \* the ConfigModel under repair
    iteration,      \* the loop variable
    iteration_logs, \* the list of log lines
    written,        \* harness/constants/typescript.py as last written
    log_path,       \* the log file build_log_path names, given to the analyzer
    log_dir,        \* the log directory of the run being analyzed
    analysis,       \* the classification of the current iteration
    ret,            \* what _validation_loop returned
    builds,         \* history: the calls of _build_images
    writes,         \* history: the calls of _write_configuration_files
    runs,           \* history: the calls of _run_test_instance
    applied,        \* history: the directives given to _apply_fix
    built,          \* history: the configuration of the last build attempt
    outcomes,       \* history: how each iteration ended
    exit,           \* how main left the process: the exit code and what led to it
    run_success     \* what _run_test_instance returned for `completed`, in this iteration

vars ==
    <<pc, max_iterations, state, config_model, iteration, iteration_logs, written,
      log_path, log_dir, analysis, ret, builds, writes, runs, applied, built, outcomes,
      exit, run_success>>

\* a value for a local that is not bound at this position
Unset == [unset |-> TRUE]

\* state["config_model"]: None, or ConfigModel.to_dict()
NoConfig == [is_none |-> TRUE]
SomeConfig(c) == [is_none |-> FALSE, value |-> c]

AgentState(complete, config) ==
    [config_generation_complete |-> complete, config_model |-> config,
     validation_complete |-> FALSE, validation_success |-> FALSE,
     validation_logs |-> <<>>, iteration_count |-> 0,
     error_occurred |-> FALSE, error_message |-> "", error_stage |-> ""]

\* the content of the constants file for a configuration
\* (_generate_constants_file_content: the entry, which the file holds as text)
constants_file(c) == [entry |-> to_constants_entry(c)]

\* f"Iteration {iteration}: {text}"
IterationLine(i, text) == "Iteration " \o ToString(i) \o ": " \o text

\* `return success, config_model, iteration_logs`
Return(success, c, logs) ==
    [returned |-> TRUE, success |-> success, final_config |-> c, iteration_logs |-> logs]

Init ==
    /\ pc = "validate"
    /\ max_iterations \in 0..MaxIterations
    /\ \/ \E d \in Descriptors : state = AgentState(TRUE, SomeConfig(_generate_config(d)))
       \/ state = AgentState(FALSE, NoConfig)
    /\ config_model = Unset
    /\ iteration = 0
    /\ iteration_logs = <<>>
    /\ written = Unset
    /\ log_path = Unset
    /\ log_dir = Unset
    /\ analysis = Unset
    /\ ret = Unset
    /\ builds = 0
    /\ writes = 0
    /\ runs = 0
    /\ applied = <<>>
    /\ built = Unset
    /\ outcomes = <<>>
    /\ exit = Unset
    /\ run_success = Unset

\* mutant: the handler also marks the validation as complete
StructuredErrorCompletes(s, message) ==
    [s EXCEPT !.error_occurred = TRUE, !.error_message = message,
              !.error_stage = "validate", !.validation_complete = TRUE]

\* validate, lines 97-102: the handler of `except Exception as e` records
\* the error in the state, which is then returned
StructuredError(s, message) ==
    [s EXCEPT !.error_occurred = TRUE, !.error_message = message, !.error_stage = "validate"]

\* validate, lines 64-68: a precondition fails, the ValueError is caught at
\* line 97 and the state is returned with the error recorded
ValidatePreconditionFails ==
    /\ pc = "validate"
    /\ ~state.config_generation_complete \/ state.config_model.is_none
    /\ state' = StructuredError(state,
                                IF ~state.config_generation_complete
                                THEN "Configuration generation not complete"
                                ELSE "config_model not found in state")
    /\ pc' = "done"
    /\ UNCHANGED <<max_iterations, config_model, iteration, iteration_logs, written,
                   log_path, log_dir, analysis, ret, builds, writes, runs, applied, built,
                   outcomes, exit, run_success>>

\* validate, lines 73-81: the ConfigModel is rebuilt from the state and the
\* loop is entered
ValidateStart ==
    /\ pc = "validate"
    /\ state.config_generation_complete /\ ~state.config_model.is_none
    /\ config_model' = state.config_model.value
    /\ pc' = "loop"
    /\ UNCHANGED <<max_iterations, state, iteration, iteration_logs, written, log_path,
                   log_dir, analysis, ret, builds, writes, runs, applied, built, outcomes, exit, run_success>>

\* mutant: range(1, self.max_iterations + 2), one iteration too many
LoopContinuesInclusive(i, n) == i <= n

\* mutant: no iteration follows the first one
LoopContinuesOnce(i, n) == i < n /\ i < 1

\* mutant: range(1, self.max_iterations), one iteration too few
LoopContinuesShort(i, n) == i + 1 < n

\* `for iteration in range(1, self.max_iterations + 1)`: whether another
\* iteration follows the iteration i of a loop bounded by n
LoopContinues(i, n) == i < n

\* lines 175-180: the next iteration starts
LoopNext ==
    /\ pc = "loop"
    /\ LoopContinues(iteration, max_iterations)
    /\ iteration' = iteration + 1
    /\ state' = [state EXCEPT !.iteration_count = iteration + 1]
    /\ analysis' = Unset
    /\ run_success' = Unset
    /\ pc' = "write"
    /\ UNCHANGED <<max_iterations, config_model, iteration_logs, written, log_path,
                   log_dir, ret, builds, writes, runs, applied, built, outcomes, exit>>

\* lines 235-238: the range is used up
LoopExhausted ==
    /\ pc = "loop"
    /\ ~LoopContinues(iteration, max_iterations)
    /\ iteration_logs' =
           Append(iteration_logs,
                  "Max iterations (" \o ToString(max_iterations) \o ") reached")
    /\ ret' = Return(FALSE, config_model, iteration_logs')
    /\ pc' = "return"
    /\ UNCHANGED <<max_iterations, state, config_model, iteration, written, log_path,
                   log_dir, analysis, builds, writes, runs, applied, built, outcomes, exit, run_success>>

\* mutant: the file is written only when there is none yet
write_constants_file_once(c, old) == IF old = Unset THEN constants_file(c) ELSE old

\* ConfigGeneratorAgent.write_constants_file: the constants file after the
\* call, given the configuration and the file as it was
write_constants_file(c, old) == constants_file(c)

\* lines 183-184: _write_configuration_files returns
WriteOk ==
    /\ pc = "write"
    /\ written' = write_constants_file(config_model, written)
    /\ writes' = writes + 1
    /\ pc' = "build"
    /\ UNCHANGED <<max_iterations, state, config_model, iteration, iteration_logs,
                   log_path, log_dir, analysis, ret, builds, runs, applied, built, outcomes, exit, run_success>>

\* lines 185-189: _write_configuration_files raises, before or after the
\* constants file itself was written
WriteFails ==
    /\ pc = "write"
    /\ written' \in {written, write_constants_file(config_model, written)}
    /\ writes' = writes + 1
    /\ iteration_logs' =
           Append(iteration_logs,
                  IterationLine(iteration, "Failed to write config files: error"))
    /\ ret' = Return(FALSE, config_model, iteration_logs')
    /\ pc' = "return"
    /\ outcomes' = Append(outcomes, "write_failed")
    /\ UNCHANGED <<max_iterations, state, config_model, iteration, log_path, log_dir,
                   analysis, builds, runs, applied, built, exit, run_success>>

\* mutant: the `if not build_success` branch is never taken
AfterBuildRuns(build_success) == "run"

\* `if not build_success` (line 194): where the iteration goes after the
\* build
AfterBuild(build_success) == IF build_success THEN "run" ELSE "build_failed"

\* line 192, build_success true
BuildOk ==
    /\ pc = "build"
    /\ builds' = builds + 1
    /\ built' = config_model
    /\ pc' = AfterBuild(TRUE)
    /\ UNCHANGED <<max_iterations, state, config_model, iteration, iteration_logs,
                   written, log_path, log_dir, analysis, ret, writes, runs, applied, outcomes, exit, run_success>>

\* line 192, build_success false: build_log_path names a log, or nothing
\* that exists
BuildFails ==
    /\ pc = "build"
    /\ builds' = builds + 1
    /\ built' = config_model
    /\ log_path' \in BuildFailureLogs
    /\ pc' = AfterBuild(FALSE)
    /\ UNCHANGED <<max_iterations, state, config_model, iteration, iteration_logs,
                   written, log_dir, analysis, ret, writes, runs, applied, outcomes, exit, run_success>>

\* mutant: the fix is logged but the configuration is left as it was
_apply_fix_dropped(c, fix) == c

\* mutant: a fix type without a branch is taken for modify_test_cmd
_apply_fix_else_test_cmd(c, fix) ==
    IF fix.fix_type \in HandledFixTypes THEN update_from_fix(c, fix)
    ELSE [c EXCEPT !.test_cmd = fix.value]

\* _apply_fix (lines 480-490)
_apply_fix(c, fix) == update_from_fix(c, fix)

\* mutant: `if "suggested_fix" not in analysis`, and the key is always there
NoFixSuggestedKeyAbsent(a) == "suggested_fix" \notin DOMAIN a

\* `if not analysis.get("suggested_fix")`: a dict is falsy when empty
NoFixSuggested(a) == a.suggested_fix = EmptyFix

\* mutant: the second line of a failed build without a fix is not appended
BuildFailureLinesSingle(i, a) == <<IterationLine(i, "Build failed")>>

\* the log lines of a failed build (lines 196 and 202-204)
BuildFailureLines(i, a) ==
    IF NoFixSuggested(a)
    THEN <<IterationLine(i, "Build failed"),
           IterationLine(i, "No fix suggested for build failure: " \o a.error_message)>>
    ELSE <<IterationLine(i, "Build failed")>>

\* lines 194-209: the build failure is classified; without a fix the loop
\* returns, with one it is applied and the loop continues
AnalyzeBuildFailure ==
    /\ pc = "build_failed"
    /\ \E a \in {analyze_build_log(log_path)} :
           /\ analysis' = a
           /\ iteration_logs' = iteration_logs \o BuildFailureLines(iteration, a)
           /\ IF NoFixSuggested(a)
              THEN /\ ret' = Return(FALSE, config_model, iteration_logs')
                   /\ pc' = "return"
                   /\ outcomes' = Append(outcomes, "build_unrecoverable")
                   /\ UNCHANGED <<config_model, applied>>
              ELSE /\ config_model' = _apply_fix(config_model, a.suggested_fix)
                   /\ applied' = Append(applied, a.suggested_fix)
                   /\ pc' = "loop"
                   /\ outcomes' = Append(outcomes, "build_fixed")
                   /\ UNCHANGED ret
    /\ log_path' = Unset
    /\ UNCHANGED <<max_iterations, state, iteration, written, log_dir, builds, writes,
                   runs, built, exit, run_success>>

\* what _run_test_instance returns beside the log directory (lines 443-446)
RunResult(completed) == [completed |-> completed]

\* line 212: _run_test_instance returns the `completed` of the result, or
\* False when the run raised (lines 443-461), and the log directory of the
\* run in both cases
RunTests ==
    /\ pc = "run"
    /\ runs' = runs + 1
    /\ run_success' \in {RunResult(completed) : completed \in BOOLEAN}
    /\ log_dir' \in LogDirs
    /\ pc' = "classify"
    /\ UNCHANGED <<max_iterations, state, config_model, iteration, iteration_logs,
                   written, log_path, analysis, ret, builds, writes, applied, built, outcomes, exit>>

\* mutant: `if analysis["error_type"] == ""`
IsSuccessEmptyString(a) == a.error_type = ""

\* mutant: success also needs an empty message
IsSuccessQuiet(a) == a.error_type = None /\ a.error_message = ""

\* `if analysis["error_type"] is None` (line 218)
IsSuccess(a) == a.error_type = None

\* mutant: `if run_success and analysis["error_type"] is None`
SucceededWhenCompleted(result, a) == result.completed /\ IsSuccess(a)

\* lines 212-218: the verdict on a run that reported `completed` and was
\* classified as a; run_success is assigned and never read
Succeeded(result, a) == IsSuccess(a)

\* the log line of an iteration whose build succeeded (lines 220, 224-226)
RunLine(i, a) ==
    IF IsSuccess(a) THEN IterationLine(i, "Success!")
    ELSE IterationLine(i, a.error_type \o ": " \o a.error_message)

\* lines 215-233: the run is classified; success returns, a failure without
\* a fix returns, a failure with a fix is applied and the loop continues
ClassifyRun ==
    /\ pc = "classify"
    /\ \E a \in {analyze_logs(log_dir)} :
           /\ analysis' = a
           /\ iteration_logs' = Append(iteration_logs, RunLine(iteration, a))
           /\ IF Succeeded(run_success, a)
              THEN /\ ret' = Return(TRUE, config_model, iteration_logs')
                   /\ pc' = "return"
                   /\ outcomes' = Append(outcomes, "success")
                   /\ UNCHANGED <<config_model, applied>>
              ELSE IF NoFixSuggested(a)
              THEN /\ ret' = Return(FALSE, config_model, iteration_logs')
                   /\ pc' = "return"
                   /\ outcomes' = Append(outcomes, "test_unrecoverable")
                   /\ UNCHANGED <<config_model, applied>>
              ELSE /\ config_model' = _apply_fix(config_model, a.suggested_fix)
                   /\ applied' = Append(applied, a.suggested_fix)
                   /\ pc' = "loop"
                   /\ outcomes' = Append(outcomes, "test_fixed")
                   /\ UNCHANGED ret
    /\ log_dir' = Unset
    /\ UNCHANGED <<max_iterations, state, iteration, written, log_path, builds, writes,
                   runs, built, exit, run_success>>

\* validate, lines 73-81 and 97-102: an exception escapes
\* ConfigModel.from_dict or _create_test_instance before the loop, or the
\* analyzer or _apply_fix inside it (the other collaborators catch their
\* own); the handler records it and the state is returned
SessionRaises ==
    /\ \/ /\ pc = "validate"
          /\ state.config_generation_complete /\ ~state.config_model.is_none
       \/ pc \in {"build_failed", "classify"}
    /\ state' = StructuredError(state, "error")
    /\ pc' = "done"
    /\ UNCHANGED <<max_iterations, config_model, iteration, iteration_logs, written,
                   log_path, log_dir, analysis, ret, builds, writes, runs, applied, built,
                   outcomes, exit, run_success>>

\* validate, lines 83-95: the result of the loop is stored in the state
ValidateReturn ==
    /\ pc = "return"
    /\ state' = [state EXCEPT !.config_model = SomeConfig(ret.final_config),
                              !.validation_complete = TRUE,
                              !.validation_success = ret.success,
                              !.validation_logs = ret.iteration_logs]
    /\ pc' = "done"
    /\ UNCHANGED <<max_iterations, config_model, iteration, iteration_logs, written,
                   log_path, log_dir, analysis, ret, builds, writes, runs, applied, built, outcomes, exit, run_success>>

Next ==
    \/ ValidatePreconditionFails
    \/ ValidateStart
    \/ LoopNext
    \/ LoopExhausted
    \/ WriteOk
    \/ WriteFails
    \/ BuildOk
    \/ BuildFails
    \/ AnalyzeBuildFailure
    \/ RunTests
    \/ ClassifyRun
    \/ SessionRaises
    \/ ValidateReturn

Spec == Init /\ [][Next]_vars

\* the session runs on until validate returns: validate is one sequential
\* call, every collaborator it calls returns
FairSpec == Spec /\ WF_vars(Next)

(***************************************************************************)
(* main around the workflow: run_workflow calls validate unless an earlier *)
(* stage recorded an error, and main turns what comes back into the exit   *)
(* code of the process.                                                    *)
(***************************************************************************)
\* sys.exit(code), and what led to it
Exit(code, cause) == [code |-> code, cause |-> cause]

\* mutant: the exit code follows validation_complete
ExitCodeComplete(s) == IF s.validation_complete THEN 0 ELSE 1

\* main, lines 228-232: `if state.get("validation_success")`
ExitCode(s) == IF s.validation_success THEN 0 ELSE 1

\* run_workflow, lines 95-98 and 108-111: the analysis or the generation
\* stage recorded an error, and run_workflow returns without calling validate
StageFails ==
    /\ pc = "validate"
    /\ ~state.config_generation_complete
    /\ \E stage \in {"analyze", "generate"} :
           state' = [state EXCEPT !.error_occurred = TRUE, !.error_message = "error",
                                  !.error_stage = stage]
    /\ pc' = "done"
    /\ UNCHANGED <<max_iterations, config_model, iteration, iteration_logs, written,
                   log_path, log_dir, analysis, ret, builds, writes, runs, applied, built,
                   outcomes, exit, run_success>>

\* main, lines 214-232: the workflow returned the state, the summary is
\* printed and the process exits
MainReturns ==
    /\ pc = "done"
    /\ exit' = Exit(ExitCode(state), "returned")
    /\ pc' = "exited"
    /\ UNCHANGED <<max_iterations, state, config_model, iteration, iteration_logs,
                   written, log_path, log_dir, analysis, ret, builds, writes, runs, applied,
                   built, outcomes, run_success>>

\* main, lines 237-240: an exception escapes run_agent_workflow before the
\* stages run (the orchestrator is built, docker.from_env is called), or
\* print_summary once they returned
MainFatal ==
    /\ pc \in {"validate", "done"}
    /\ exit' = Exit(1, "exception")
    /\ pc' = "exited"
    /\ UNCHANGED <<max_iterations, state, config_model, iteration, iteration_logs,
                   written, log_path, log_dir, analysis, ret, builds, writes, runs, applied,
                   built, outcomes, run_success>>

\* main, lines 234-236: the user interrupts the process, before validate is
\* called, while an image is built or the tests run, or while the summary
\* is printed; no handler below main catches a KeyboardInterrupt
MainInterrupted ==
    /\ pc \in {"validate", "build", "run", "done"}
    /\ exit' = Exit(130, "interrupt")
    /\ pc' = "exited"
    /\ UNCHANGED <<max_iterations, state, config_model, iteration, iteration_logs,
                   written, log_path, log_dir, analysis, ret, builds, writes, runs, applied,
                   built, outcomes, run_success>>

CliNext ==
    \/ Next
    \/ StageFails
    \/ MainReturns
    \/ MainFatal
    \/ MainInterrupted

CliSpec == Init /\ [][CliNext]_vars

(***************************************************************************)
(* The analyzer entry points on their own: each is a static method that   *)
(* may be called with any path.  One call is modelled: pc names the entry  *)
(* point called, log_path the file it was given, analysis what it          *)
(* returned.                                                               *)
(***************************************************************************)
\* the lines logs are made of
LogLines ==
    {"Image built successfully",
     "E: Unable to locate package libxcomposite1",
     "E: Unable to locate package libfoo-dev",
     "/bin/sh: 1: npm: command not found",
     "EACCES: permission denied",
     "connect ETIMEDOUT 104.16.0.35:443",
     "Error building image",
     ">>>>> Init Failed",
     "INSTALL_FAIL",
     "Error: Cannot find module 'left-pad'",
     "Error: Cannot find module 'xvfb'",
     "npm ERR! ERESOLVE unable to resolve dependency tree",
     "/bin/sh: 1: python: not found",
     "gyp ERR! build error",
     "Test Suites: 1 passed, 1 total",
     "Timeout exceeded",
     "Timeout error",
     "Chromium revision is not found",
     "Missing X server or $DISPLAY",
     "exit code 1"}

\* the texts of at most MaxLogLines lines
LogTexts == {Join(ls, "\n") : ls \in UNION {[1..n -> LogLines] : n \in 0..MaxLogLines}}

LogFiles == {Missing, Unreadable} \cup {Readable(t) : t \in LogTexts}

AnalyzerInit ==
    /\ pc = "analyzer"
    /\ max_iterations = 0
    /\ state = AgentState(FALSE, NoConfig)
    /\ config_model = Unset
    /\ iteration = 0
    /\ iteration_logs = <<>>
    /\ written = Unset
    /\ log_path = Unset
    /\ log_dir = Unset
    /\ analysis = Unset
    /\ ret = Unset
    /\ builds = 0
    /\ writes = 0
    /\ runs = 0
    /\ applied = <<>>
    /\ built = Unset
    /\ outcomes = <<>>
    /\ exit = Unset
    /\ run_success = Unset

CallAnalyzeBuildLog ==
    /\ pc = "analyzer"
    /\ log_path' \in LogFiles
    /\ analysis' = analyze_build_log(log_path')
    /\ pc' = "analyze_build_log"
    /\ UNCHANGED <<max_iterations, state, config_model, iteration, iteration_logs, written,
                   log_dir, ret, builds, writes, runs, applied, built, outcomes, exit, run_success>>

CallAnalyzeTestOutput ==
    /\ pc = "analyzer"
    /\ log_path' \in LogFiles
    /\ analysis' = analyze_test_output(log_path')
    /\ pc' = "analyze_test_output"
    /\ UNCHANGED <<max_iterations, state, config_model, iteration, iteration_logs, written,
                   log_dir, ret, builds, writes, runs, applied, built, outcomes, exit, run_success>>

CallAnalyzeRunLog ==
    /\ pc = "analyzer"
    /\ log_path' \in LogFiles
    /\ analysis' = analyze_run_log(log_path')
    /\ pc' = "analyze_run_log"
    /\ UNCHANGED <<max_iterations, state, config_model, iteration, iteration_logs, written,
                   log_dir, ret, builds, writes, runs, applied, built, outcomes, exit, run_success>>

AnalyzerNext == CallAnalyzeBuildLog \/ CallAnalyzeTestOutput \/ CallAnalyzeRunLog

AnalyzerSpec == AnalyzerInit /\ [][AnalyzerNext]_vars

(***************************************************************************)
(* Properties of the loop.                                                 *)
(***************************************************************************)
\* _validation_loop has returned
Returned == pc \in {"return", "done"} /\ ret # Unset

\* every iteration so far ended with a directive applied
AllFixed == \A i \in 1..Len(outcomes) : outcomes[i] \in {"build_fixed", "test_fixed"}

\* the analyzer suggested the same directive every time
SameFix == \A i \in 1..Len(applied) : applied[i] = applied[1]

\* how the last iteration ended; "none" when there was no iteration
LastOutcome == IF outcomes = <<>> THEN "none" ELSE outcomes[Len(outcomes)]

\* once the loop has returned, nothing is written, built, run or applied
\* the analyzer called in this step returns a classification (it raises
\* nothing)
AnalyzerReturns == analysis' # Unset

NoFurtherWork ==
    pc \in {"return", "done"} =>
        UNCHANGED <<builds, writes, runs, applied, config_model, written, ret>>

\* the number of steps the loop can still take, at most: a natural number
\* that every step of the loop makes smaller
StepsLeft ==
    6 * (max_iterations - iteration) +
        CASE pc = "validate" -> 9
          [] pc = "write" -> 6
          [] pc = "build" -> 5
          [] pc \in {"build_failed", "run"} -> 4
          [] pc = "classify" -> 3
          [] pc = "loop" -> 2
          [] pc = "return" -> 1
          [] OTHER -> 0

\* C1: for every max_iterations the loop terminates (it is never stuck before
\* it is done, and every step decreases a natural number), the build
\* collaborator is invoked at most max_iterations times, and success is
\* returned only when the classification of the final iteration has
\* error_type None
C1_TerminatesWithinBudget ==
    /\ [](builds <= max_iterations /\ iteration <= max_iterations)
    /\ [](Returned /\ ret.success => analysis # Unset /\ analysis.error_type = None)
    /\ [](pc = "done" \/ ENABLED Next)
    /\ [][StepsLeft' < StepsLeft]_vars

C1_Witness ==
    /\ pc = "done"
    /\ ret # Unset
    /\ ~ret.success
    /\ max_iterations >= 2
    /\ builds = max_iterations

\* C2: when every iteration fails and the analyzer suggests the same fix each
\* time, the loop makes exactly max_iterations build attempts and returns
\* non-success; no iteration beyond max_iterations is started
C2_OscillationEndsAtBudget ==
    /\ iteration <= max_iterations
    /\ writes <= max_iterations
    /\ Returned /\ AllFixed /\ SameFix => builds = max_iterations /\ ~ret.success

\* the same removal of an absent package three times: the configuration
\* returned is the one the session started with
C2_Witness ==
    /\ pc = "return"
    /\ ret # Unset
    /\ max_iterations >= 2
    /\ Len(applied) = max_iterations
    /\ AllFixed
    /\ SameFix
    /\ applied[1].fix_type = "remove_apt_package"
    /\ ret.final_config = state.config_model.value
    /\ builds = max_iterations
    /\ ~ret.success

\* C3: when the run's logs classify to error_type None in iteration k, the
\* loop returns success at once: k builds and k writes were made, no directive
\* is applied in iteration k, and nothing is written, built or run afterwards
C3_SuccessReturnsAtOnce ==
    [][/\ (pc = "classify" /\ AnalyzerReturns /\ analyze_logs(log_dir).error_type = None) =>
            /\ pc' = "return"
            /\ ret'.success
            /\ ret'.final_config = config_model
            /\ builds = iteration
            /\ writes = iteration
            /\ Len(applied) = iteration - 1
            /\ UNCHANGED <<builds, writes, runs, applied, config_model, written>>
       /\ NoFurtherWork]_vars

C3_Witness ==
    /\ pc = "done"
    /\ ret # Unset
    /\ ret.success
    /\ iteration = 1
    /\ builds = 1
    /\ runs = 1
    /\ max_iterations = 3

\* the loop returns non-success in this step and applies nothing
StopsUnrecoverable ==
    /\ pc' = "return"
    /\ ~ret'.success
    /\ ret'.final_config = config_model
    /\ UNCHANGED <<iteration, builds, writes, runs, applied, config_model, written>>

\* C4: a build-phase classification without a suggested fix, and a test-phase
\* failure without a suggested fix, end the loop non-success in that same
\* iteration: no directive is applied, nothing further is built or run
C4_NoFixReturnsAtOnce ==
    [][/\ (/\ pc = "build_failed"
           /\ AnalyzerReturns
           /\ analyze_build_log(log_path).suggested_fix = EmptyFix) => StopsUnrecoverable
       /\ (/\ pc = "classify"
           /\ AnalyzerReturns
           /\ analyze_logs(log_dir).error_type # None
           /\ analyze_logs(log_dir).suggested_fix = EmptyFix) => StopsUnrecoverable
       /\ (pc = "return" => pc' = "done")
       /\ NoFurtherWork]_vars

C4_Witness ==
    /\ pc = "done"
    /\ ret # Unset
    /\ ~ret.success
    /\ max_iterations = 3
    /\ outcomes \in {<<"build_unrecoverable">>, <<"test_unrecoverable">>}
    /\ builds = 1
    /\ applied = <<>>

\* a build log none of whose lines the build analyzer knows: no signature, no
\* generic failure marker, no success marker
UnrecognizedBuildLog(log) ==
    /\ log.state = "ok"
    /\ FirstMatch(BUILD_ERROR_PATTERNS, log.content) = None
    /\ ~Contains(log.content, "Error building image")
    /\ ~Contains(log.content, "Image built successfully")

\* a test output none of whose lines the test analyzer knows
UnrecognizedTestOutput(log) ==
    /\ log.state = "ok"
    /\ ~InstallFailed(log.content)
    /\ ~TestsRan(log.content)
    /\ FirstMatch(INSTALL_ERROR_PATTERNS, log.content) = None
    /\ FirstMatch(TEST_ERROR_PATTERNS, log.content) = None

\* the build log of the run's directory is read and reports an error, so
\* that the test output is not looked at
BuildLogDecides(dir) ==
    /\ dir.image_build_dir = "symlink"
    /\ Exists(dir.build_log)
    /\ ReportsError(analyze_build_log(dir.build_log))

\* C5: a log without any known signature, build log or test output, is
\* classified with a generic error kind that is not None and without a fix,
\* so that the loop returns non-success
C5_UnrecognizedIsUnrecoverable ==
    [][/\ (pc = "build_failed" /\ AnalyzerReturns /\ UnrecognizedBuildLog(log_path)) =>
            /\ analysis'.error_type # None
            /\ analysis'.suggested_fix = EmptyFix
            /\ pc' = "return"
            /\ ~ret'.success
       /\ (/\ pc = "classify"
           /\ AnalyzerReturns
           /\ ~BuildLogDecides(log_dir)
           /\ UnrecognizedTestOutput(log_dir.test_output)) =>
            /\ analysis'.error_type # None
            /\ analysis'.suggested_fix = EmptyFix
            /\ pc' = "return"
            /\ ~ret'.success]_vars

\* the test output says that the tests ran and shows no failure
SuccessSignal(log) ==
    /\ log.state = "ok"
    /\ TestsRan(log.content)
    /\ ~InstallFailed(log.content)
    /\ FirstMatch(TEST_ERROR_PATTERNS, log.content) = None

\* C6: the loop returns success only when the build of the final iteration
\* succeeded and the run left a log artifact that holds the success signal;
\* an empty log directory never leads to success
C6_SuccessNeedsEvidence ==
    [][(pc = "classify" /\ pc' = "return" /\ ret'.success) =>
            /\ built = config_model
            /\ builds = iteration
            /\ SuccessSignal(log_dir.test_output)]_vars

\* C7: every entry point of the analyzer classifies a missing log as
\* log_not_found and an unreadable one as log_read_error, without a fix
C7_AbsentEvidenceIsError ==
    pc \in {"analyze_build_log", "analyze_test_output", "analyze_run_log"} =>
        /\ log_path.state = "missing" =>
               analysis.error_type = "log_not_found" /\ analysis.suggested_fix = EmptyFix
        /\ log_path.state = "unreadable" =>
               analysis.error_type = "log_read_error" /\ analysis.suggested_fix = EmptyFix

LastApplied == applied[Len(applied)]

C9_WrittenBeforeBuild ==
    /\ pc = "build" =>
           /\ written = constants_file(config_model)
           /\ writes = iteration
           /\ builds = iteration - 1
    /\ builds <= writes
    /\ (built # Unset /\ pc \in {"run", "build_failed"}) =>
           written = constants_file(built)

\* a build about to be made with a configuration that a directive changed
C9_Witness ==
    /\ pc = "build"
    /\ iteration >= 2
    /\ config_model # built
    /\ config_model # state.config_model.value
    /\ written = constants_file(config_model)

\* the entries of a log that belong to iteration i
EntriesOf(logs, i) ==
    {k \in 1..Len(logs) : StartsAt(logs[k], IterationLine(i, ""), 1)}

\* C10 as stated: every iteration appends exactly one entry, so that on
\* return the log holds one entry per iteration
C10_OneEntryPerIteration ==
    Returned =>
        /\ Len(ret.iteration_logs) = iteration
        /\ \A i \in 1..iteration : Cardinality(EntriesOf(ret.iteration_logs, i)) = 1

\* C10: on return the log holds, for every iteration, one entry, and two for
\* an iteration whose build failed without a suggested fix; when the
\* iterations are used up one more entry follows, which names no iteration
C10_EntriesPerIteration ==
    Returned =>
        /\ Len(outcomes) = iteration
        /\ \A i \in 1..iteration :
               Cardinality(EntriesOf(ret.iteration_logs, i)) =
                   IF outcomes[i] = "build_unrecoverable" THEN 2 ELSE 1
        /\ Len(ret.iteration_logs) =
               iteration + (IF LastOutcome = "build_unrecoverable" THEN 1 ELSE 0)
                         + (IF AllFixed THEN 1 ELSE 0)
        /\ AllFixed =>
               ret.iteration_logs[Len(ret.iteration_logs)] =
                   "Max iterations (" \o ToString(max_iterations) \o ") reached"

\* a build that fails without a fix in the second iteration: three entries
C10_Witness ==
    /\ pc = "done"
    /\ ret # Unset
    /\ iteration = 2
    /\ LastOutcome = "build_unrecoverable"
    /\ Len(ret.iteration_logs) = 3
    /\ Cardinality(EntriesOf(ret.iteration_logs, 2)) = 2

(***************************************************************************)
(* Properties of the analyzer.                                             *)
(***************************************************************************)
\* analyze_build_log was called on a readable log without the success marker
BuildLogAnalyzed ==
    /\ pc = "analyze_build_log"
    /\ log_path.state = "ok"
    /\ ~Contains(log_path.content, "Image built successfully")

\* C11: for a build log without the success marker that holds both a
\* missing-package signature and 'Error building image', analyze_build_log
\* returns missing_package with its directive; build_failure_generic is
\* returned only for a log in which no signature of the build phase matches
C11_SpecificBeforeGeneric ==
    BuildLogAnalyzed =>
        /\ (/\ MissingPackageAt(log_path.content) # {}
            /\ Contains(log_path.content, "Error building image")) =>
               /\ analysis.error_type = "missing_package"
               /\ analysis.suggested_fix.fix_type = "remove_apt_package"
               /\ analysis.suggested_fix.field = "apt_pkgs"
        /\ analysis.error_type = "build_failure_generic" =>
               /\ Contains(log_path.content, "Error building image")
               /\ \A name \in {"missing_package", "node_not_found", "npm_not_found",
                               "permission_denied", "network_timeout"} :
                      ~PatternSearch(name, log_path.content)

\* the generic marker comes first in the log, the signature after it
C11_Witness ==
    /\ pc = "analyze_build_log"
    /\ log_path = Readable("Error building image\nE: Unable to locate package libfoo-dev")
    /\ analysis.error_type = "missing_package"
    /\ analysis.suggested_fix.value = "libfoo-dev"

\* at position i the text s names the package p: the signature, then p, which
\* holds no white space and ends at white space or at the end of the text
NamesPackage(s, i, p) ==
    /\ p # ""
    /\ StartsAt(s, UnableToLocate \o p, i)
    /\ \A k \in 1..Len(p) : ~IsSpace(CharAt(p, k))
    /\ LET after == i + Len(UnableToLocate) + Len(p)
       IN  after > Len(s) \/ IsSpace(CharAt(s, after))

\* C12: for every build log without the success marker in which
\* 'E: Unable to locate package <P>' occurs, analyze_build_log returns
\* missing_package and the directive remove_apt_package on apt_pkgs whose
\* value is the package named by the first occurrence
C12_FirstMissingPackage ==
    (BuildLogAnalyzed /\ MissingPackageAt(log_path.content) # {}) =>
        /\ analysis.error_type = "missing_package"
        /\ analysis.suggested_fix.fix_type = "remove_apt_package"
        /\ analysis.suggested_fix.field = "apt_pkgs"
        /\ NamesPackage(log_path.content, Least(MissingPackageAt(log_path.content)),
                        analysis.suggested_fix.value)

\* two packages are named, the directive carries the first
C12_Witness ==
    /\ pc = "analyze_build_log"
    /\ log_path = Readable("E: Unable to locate package libfoo-dev\nE: Unable to locate package libxcomposite1")
    /\ analysis.error_type = "missing_package"
    /\ analysis.suggested_fix = Fix("remove_apt_package", "apt_pkgs", "libfoo-dev",
                                    "Package not found in apt repositories")

\* at position i the text s names the module m between quotes
NamesModule(s, i, m) ==
    /\ m # ""
    /\ StartsAt(s, CannotFindModule \o m \o "'", i)
    /\ \A k \in 1..Len(m) : CharAt(m, k) # "'"

\* analyze_test_output was called on a log with an install-failure marker
\* and the missing-module signature and no other signature of either dict
MissingModuleOnly ==
    /\ pc = "analyze_test_output"
    /\ log_path.state = "ok"
    /\ Contains(log_path.content, ">>>>> Init Failed") \/ Contains(log_path.content, "INSTALL_FAIL")
    /\ MissingModuleAt(log_path.content) # {}
    /\ \A name \in {"npm_error", "version_conflict", "missing_python", "gyp_error",
                    "missing_binary", "timeout", "chromium_missing", "display_error"} :
           ~PatternSearch(name, log_path.content)

\* C13: for a test log with an install-failure marker and "Cannot find
\* module '<M>'" and no other install or test signature, analyze_test_output
\* returns an error kind that is not None and the directive add_command on
\* install with the value 'npm install M'
C13_MissingModuleDirective ==
    MissingModuleOnly =>
        /\ analysis.error_type # None
        /\ analysis.suggested_fix.fix_type = "add_command"
        /\ analysis.suggested_fix.field = "install"
        /\ StartsAt(analysis.suggested_fix.value, "npm install ", 1)
        /\ NamesModule(log_path.content, Least(MissingModuleAt(log_path.content)),
                       SubSeq(analysis.suggested_fix.value, Len("npm install ") + 1,
                              Len(analysis.suggested_fix.value)))

C13_Witness ==
    /\ pc = "analyze_test_output"
    /\ log_path = Readable(">>>>> Init Failed\nError: Cannot find module 'left-pad'")
    /\ analysis.error_type = "install_failure"
    /\ analysis.suggested_fix.value = "npm install left-pad"

(***************************************************************************)
(* ConfigModel.update_from_fix on its own: a generated configuration and   *)
(* the directives applied to it one after the other.  state holds the      *)
(* descriptor the configuration was generated from (state["repo_model"]),  *)
(* config_model the configuration, applied the directives so far.          *)
(***************************************************************************)
\* the descriptors configurations are generated from: those of the sessions
\* and a yarn project with a build script
DirectiveDescriptors ==
    Descriptors \cup
        {RepoModel("yarn", "20", <<"yarn install">>, "npm run build", "npm run test", <<>>, TRUE)}

\* the dict with the key repo_model set
WithRepoModel(s, repo_model) ==
    [k \in DOMAIN s \cup {"repo_model"} |-> IF k = "repo_model" THEN repo_model ELSE s[k]]

\* directives of every fix type, and of none: retry and increase_timeout as
\* the analyzer suggests them, a dict without fix_type, an unknown string
Directives ==
    {Fix("add_apt_package", "apt_pkgs", "xvfb", None),
     Fix("add_apt_package", "apt_pkgs", "chromium", None),
     Fix("remove_apt_package", "apt_pkgs", "chromium", None),
     Fix("remove_apt_package", "apt_pkgs", "libfoo-dev", None),
     Fix("change_version", "node_version", "18", None),
     Fix("change_version", "pnpm_version", "8.15.0", None),
     Fix("change_version", "_variant", "js_3", None),
     Fix("add_command", "install", "npm install left-pad", None),
     Fix("add_command", "build", "npm run build", None),
     Fix("add_command", "test_cmd", "npm run lint", None),
     Fix("modify_test_cmd", "test_cmd", "npm test -- --ci", None),
     Fix("add_npm_flag", "install", "--legacy-peer-deps", None),
     Fix("retry", None, None, "Transient network error"),
     Fix("increase_timeout", "timeout", "600", None),
     Fix(None, "install", "npm ci", None),
     Fix("add_package", "install", "left-pad", None)}

DirectiveInit ==
    /\ pc = "directive"
    /\ max_iterations = 0
    /\ \E d \in DirectiveDescriptors :
           /\ state = WithRepoModel(AgentState(TRUE, SomeConfig(_generate_config(d))), d)
           /\ config_model = _generate_config(d)
    /\ iteration = 0
    /\ iteration_logs = <<>>
    /\ written = Unset
    /\ log_path = Unset
    /\ log_dir = Unset
    /\ analysis = Unset
    /\ ret = Unset
    /\ builds = 0
    /\ writes = 0
    /\ runs = 0
    /\ applied = <<>>
    /\ built = Unset
    /\ outcomes = <<>>
    /\ exit = Unset
    /\ run_success = Unset

\* config_model.update_from_fix(fix)
ApplyDirective ==
    /\ pc = "directive"
    /\ Len(applied) < MaxDirectives
    /\ \E fix \in Directives :
           /\ config_model' = update_from_fix(config_model, fix)
           /\ applied' = Append(applied, fix)
    /\ UNCHANGED <<pc, max_iterations, state, iteration, iteration_logs, written, log_path,
                   log_dir, analysis, ret, builds, writes, runs, built, outcomes, exit, run_success>>

DirectiveNext == ApplyDirective

DirectiveSpec == DirectiveInit /\ [][DirectiveNext]_vars

(***************************************************************************)
(* Properties of directive application.                                    *)
(***************************************************************************)
\* the elements of a list
Range(lst) == {lst[i] : i \in 1..Len(lst)}

\* the directive this step applies
Applying == applied'[Len(applied')]

\* this step applies a directive of the fix type
Applies(fix_type) == applied' # applied /\ Applying.fix_type = fix_type

\* applying the directive of this step once more changes nothing
SecondChangesNothing == update_from_fix(config_model', Applying) = config_model'

\* C14: add_apt_package(X) where X is present leaves the whole model
\* unchanged, where X is absent it appends X and changes nothing else, and a
\* second application yields the same model as the first
C14_AddAptPackageIdempotent ==
    [][Applies("add_apt_package") =>
          /\ Applying.value \in Range(config_model.apt_pkgs) => config_model' = config_model
          /\ Applying.value \notin Range(config_model.apt_pkgs) =>
                 config_model' = [config_model EXCEPT !.apt_pkgs = Append(@, Applying.value)]
          /\ SecondChangesNothing]_vars

\* xvfb was added twice to a configuration without packages
C14_Witness ==
    /\ pc = "directive"
    /\ Len(applied) = 2
    /\ applied[1] = Fix("add_apt_package", "apt_pkgs", "xvfb", None)
    /\ applied[2] = applied[1]
    /\ config_model.apt_pkgs = <<"xvfb">>

\* the list without the element x
Without(lst, x) == LET Keep(p) == p # x IN SelectSeq(lst, Keep)

\* C15: remove_apt_package(X) where X is absent changes nothing; where X is
\* present it leaves X absent and every other package and field as it was;
\* a second application changes nothing.  (apt_pkgs never holds a package
\* twice: the generator sorts a set, add_apt_package tests membership.)
C15_RemoveAptPackageSafe ==
    /\ [](pc = "directive" =>
              Cardinality(Range(config_model.apt_pkgs)) = Len(config_model.apt_pkgs))
    /\ [][Applies("remove_apt_package") =>
             /\ Applying.value \notin Range(config_model.apt_pkgs) =>
                    config_model' = config_model
             /\ Applying.value \in Range(config_model.apt_pkgs) =>
                    /\ Applying.value \notin Range(config_model'.apt_pkgs)
                    /\ config_model' =
                           [config_model EXCEPT !.apt_pkgs = Without(@, Applying.value)]
             /\ SecondChangesNothing]_vars

\* chromium was removed, added again at the end, and removed again
C15_Witness ==
    /\ pc = "directive"
    /\ Len(applied) = 3
    /\ applied[1] = Fix("remove_apt_package", "apt_pkgs", "chromium", None)
    /\ applied[2] = Fix("add_apt_package", "apt_pkgs", "chromium", None)
    /\ applied[3] = applied[1]
    /\ config_model.apt_pkgs = <<"libx11-xcb1", "libxcomposite1">>

\* C16: after a change_version directive with field f and value v,
\* docker_specs[f] = v and every other key of docker_specs keeps its value,
\* for every build parameter f
C16_ChangeVersionSetsField ==
    [][Applies("change_version") =>
          /\ Applying.field \in DOMAIN config_model'.docker_specs
          /\ config_model'.docker_specs[Applying.field] = Applying.value
          /\ \A k \in DOMAIN config_model.docker_specs \ {Applying.field} :
                 /\ k \in DOMAIN config_model'.docker_specs
                 /\ config_model'.docker_specs[k] = config_model.docker_specs[k]]_vars

\* DependencyMapper.get_install_command: the install invocation of a
\* package manager
InstallInvocation(package_manager) == package_manager \o " install"

\* C17: add_npm_flag(v) appends v to every install command that contains the
\* install invocation of the configuration's package manager and not v,
\* leaves every other command as it was, and a second application changes
\* nothing
C17_AddNpmFlagPerManager ==
    [][Applies("add_npm_flag") =>
          /\ Len(config_model'.install) = Len(config_model.install)
          /\ \A i \in 1..Len(config_model.install) :
                 config_model'.install[i] =
                     IF /\ Contains(config_model.install[i],
                                    InstallInvocation(state.repo_model.package_manager))
                        /\ ~Contains(config_model.install[i], Applying.value)
                     THEN config_model.install[i] \o " " \o Applying.value
                     ELSE config_model.install[i]
          /\ SecondChangesNothing]_vars

\* build as a list: None reads as the empty list
BuildCommands(c) == IF c.build.is_none THEN <<>> ELSE c.build.cmds

\* the list with v at its end, unless it holds v already
AppendedOnce(lst, v) == IF v \in Range(lst) THEN lst ELSE Append(lst, v)

\* C18: add_command(install, v) appends v to install unless it is there;
\* add_command(build, v) does so to build, which is an empty list first when
\* it was None; no other field changes and a second application changes
\* nothing
C18_AddCommandIdempotent ==
    [][Applies("add_command") =>
          /\ Applying.field = "install" =>
                 config_model' =
                     [config_model EXCEPT !.install = AppendedOnce(@, Applying.value)]
          /\ Applying.field = "build" =>
                 config_model' =
                     [config_model EXCEPT
                         !.build = Build(AppendedOnce(BuildCommands(config_model),
                                                      Applying.value))]
          /\ Applying.field \notin {"install", "build"} => config_model' = config_model
          /\ SecondChangesNothing]_vars

\* a build command was added twice to a configuration without build
C18_Witness ==
    /\ pc = "directive"
    /\ state.repo_model.package_manager = "npm"
    /\ Len(applied) = 2
    /\ applied[1] = Fix("add_command", "build", "npm run build", None)
    /\ applied[2] = applied[1]
    /\ config_model.build = Build(<<"npm run build">>)

\* the directives update_from_fix has no branch for
UnknownDirectives == {fix \in Directives : fix.fix_type \notin HandledFixTypes}

C20_InstallNeverEmpty ==
    /\ [](pc = "directive" => Len(config_model.install) >= 1)
    /\ [][pc = "directive" =>
              /\ Len(config_model'.install) >= Len(config_model.install)
              /\ \A i \in 1..Len(config_model.install) :
                     \E n \in 0..Len(config_model'.install[i]) :
                         SubSeq(config_model'.install[i], 1, n) = config_model.install[i]]_vars

\* a yarn configuration after an add_npm_flag and an added install command
C20_Witness ==
    /\ pc = "directive"
    /\ state.repo_model.package_manager = "yarn"
    /\ Len(applied) = 3
    /\ \E i \in 1..3 : applied[i].fix_type = "add_npm_flag"
    /\ \E i \in 1..3 : applied[i].fix_type = "add_command" /\ applied[i].field = "install"
    /\ Len(config_model.install) = 2
    /\ config_model.install[1] = "yarn install"

\* no package name is held twice
Distinct(lst) == \A i, j \in 1..Len(lst) : lst[i] = lst[j] => i = j

\* C21: the packages of a generated configuration are pairwise distinct,
\* and so are those of every configuration reached from it by any sequence
\* of directives: apt_pkgs never holds a name twice
C21_AptPkgsDistinct == pc = "directive" => Distinct(config_model.apt_pkgs)

\* a package was removed and added again, and one that is present was added:
\* the list holds each name once
C21_Witness ==
    /\ pc = "directive"
    /\ Len(applied) = 3
    /\ applied[1].fix_type = "remove_apt_package" /\ applied[1].value = "chromium"
    /\ applied[2].fix_type = "add_apt_package" /\ applied[2].value = "chromium"
    /\ applied[3].fix_type = "add_apt_package" /\ applied[3].value = "chromium"
    /\ config_model.apt_pkgs = <<"libx11-xcb1", "libxcomposite1", "chromium">>

\* C22: no directive removes a key of docker_specs: the keys before a
\* directive are keys after it
C22_DockerSpecsKeysGrow ==
    [][pc = "directive" =>
           DOMAIN config_model.docker_specs \subseteq DOMAIN config_model'.docker_specs]_vars

\* change_version added the key pnpm_version to a configuration that had
\* none, and the keys it had are still there
C22_Witness ==
    /\ pc = "directive"
    /\ Len(applied) = 1
    /\ applied[1].fix_type = "change_version" /\ applied[1].field = "pnpm_version"
    /\ "pnpm_version" \notin DOMAIN state.config_model.value.docker_specs
    /\ DOMAIN config_model.docker_specs =
           DOMAIN state.config_model.value.docker_specs \cup {"pnpm_version"}

(***************************************************************************)
(* Properties of validate and of main.                                     *)
(***************************************************************************)
\* the state records an error of the validate stage and no validation result
ErrorRecorded(s) ==
    /\ s.error_occurred
    /\ s.error_stage = "validate"
    /\ ~s.validation_complete
    /\ ~s.validation_success

\* C23: validate always returns the state.  With the generation incomplete
\* or no config_model it writes, builds and runs nothing and returns the
\* state with error_occurred, error_stage "validate" and validation_complete
\* and validation_success False; an exception raised later in the session
\* ends it with the same record, and nothing is written, built or run after it
C23_ValidateErrorsAreStructured ==
    /\ [](pc = "done" =>
             \/ ErrorRecorded(state)
             \/ ~state.error_occurred /\ state.validation_complete)
    /\ [][(/\ pc = "validate"
           /\ ~state.config_generation_complete \/ state.config_model.is_none) =>
              /\ pc' = "done"
              /\ ErrorRecorded(state')
              /\ writes' = 0 /\ builds' = 0 /\ runs' = 0 /\ written' = Unset]_vars
    /\ [][(pc' = "done" /\ pc # "return") =>
              /\ ErrorRecorded(state')
              /\ UNCHANGED <<writes, builds, runs, written, config_model>>]_vars

\* the analyzer raised in the second iteration, after two builds and a run:
\* validate returned the state with the error recorded
C23_Witness ==
    /\ pc = "done"
    /\ ErrorRecorded(state)
    /\ state.error_message = "error"
    /\ state.iteration_count = 2
    /\ builds = 2
    /\ runs = 1
    /\ ret = Unset

\* C24: main exits with 0 exactly when the workflow returned a state whose
\* validation_success is true; a returned state without it (a failed
\* validation, an error recorded by a stage) and an exception give 1, an
\* interruption by the user gives 130
C24_ExitCodes ==
    pc = "exited" =>
        /\ exit.code \in {0, 1, 130}
        /\ exit.code = 0 <=> (exit.cause = "returned" /\ state.validation_success)
        /\ exit.code = 130 <=> exit.cause = "interrupt"
        /\ exit.cause = "exception" => exit.code = 1
        /\ (exit.cause = "returned" /\ state.error_occurred) => exit.code = 1
        /\ (/\ exit.cause = "returned"
            /\ state.validation_complete
            /\ ~state.validation_success) => exit.code = 1

\* the second iteration succeeded after a repair, and main exited with 0
C24_Witness ==
    /\ pc = "exited"
    /\ exit = Exit(0, "returned")
    /\ state.validation_success
    /\ state.iteration_count = 2
    /\ Len(applied) = 1

\* the classifications that differ from a in the diagnostic text only: the
\* message, and the reason of a directive that has one
Reworded(a) ==
    {[a EXCEPT !.error_message = m, !.suggested_fix.reason = r] :
        m \in {a.error_message, "reworded"},
        r \in IF a.suggested_fix.reason = None THEN {None}
              ELSE {a.suggested_fix.reason, "reworded"}}

\* this step leaves the loop where the classification b sends it: it returns
\* with the verdict, or applies the directive of b and goes on
StepsAs(b, success) ==
    IF success \/ NoFixSuggested(b)
    THEN /\ pc' = "return"
         /\ ret'.success = success
         /\ ret'.final_config = config_model
         /\ UNCHANGED config_model
         /\ Len(applied') = Len(applied)
    ELSE /\ pc' = "loop"
         /\ config_model' = _apply_fix(config_model, b.suggested_fix)
         /\ Len(applied') = Len(applied) + 1
         /\ UNCHANGED ret

\* C25: the step the loop takes on a classification is the step it takes on
\* every classification that differs in the message and the reason text
\* only: the same position, the same verdict, the same configuration, and
\* the same writes, builds and runs; so two sessions that differ in these
\* texts only run in lockstep
C25_TextDoesNotSteer ==
    [][/\ (pc = "build_failed" /\ AnalyzerReturns) =>
              \A b \in Reworded(analysis') :
                  StepsAs(b, FALSE) /\ UNCHANGED <<writes, builds, runs, written>>
       /\ (pc = "classify" /\ AnalyzerReturns) =>
              \A b \in Reworded(analysis') :
                  StepsAs(b, IsSuccess(b)) /\ UNCHANGED <<writes, builds, runs, written>>]_vars

\* a directive that carries a reason was applied on a classification that
\* carries a message, and the session went on to the next build
C25_Witness ==
    /\ pc = "build"
    /\ iteration = 2
    /\ Len(applied) = 1
    /\ applied[1].reason # None
    /\ config_model # state.config_model.value
    /\ Len(iteration_logs) = 1

(***************************************************************************)
(* The generator on its own: generate is called on the state that holds    *)
(* the descriptor, and the configuration it returned is repaired by        *)
(* directives between the calls.  config_model is the configuration the    *)
(* last call returned, as it is now; outcomes holds what each call         *)
(* returned, as it was returned.                                           *)
(***************************************************************************)
\* how often generate is called
MaxGenerations == 2

\* directives that change apt_pkgs, install and test_cmd
GeneratorDirectives ==
    {Fix("add_apt_package", "apt_pkgs", "xvfb", None),
     Fix("remove_apt_package", "apt_pkgs", "chromium", None),
     Fix("add_command", "install", "npm install left-pad", None),
     Fix("modify_test_cmd", "test_cmd", "npm test -- --ci", None)}

\* mutant: `commands = repo_model.install_command`, the commands are appended
\* to the list of the descriptor
DescriptorAfterInstallShared(repo_model, c) == [repo_model EXCEPT !.install_command = c.install]

\* mutant: `apt_pkgs = repo_model.system_deps`, the list is not copied and
\* the descriptor follows the configuration
DescriptorAfterShared(repo_model, c) == [repo_model EXCEPT !.system_deps = c.apt_pkgs]

\* the descriptor after a directive changed the configuration c that was
\* generated from it: _generate_config copies system_deps and env_vars
\* (lines 87 and 98) and builds the other lists anew, no list of the
\* descriptor is a list of the configuration
DescriptorAfter(repo_model, c) == repo_model

\* the descriptors the generator is called on: those above and, as a
\* RepoModel can hold them, a build command beside has_build_step false,
\* has_build_step true beside no or an empty build command, and environment
\* variables
GeneratorDescriptors ==
    DirectiveDescriptors \cup
        {RepoModel("npm", "20", <<"npm install">>, "npm run build", "npm test", <<>>, FALSE),
         RepoModel("npm", "20", <<"npm install">>, None, "npm test", <<>>, TRUE),
         RepoModel("npm", "20", <<"npm install">>, "", "npm test", <<"xvfb">>, TRUE),
         [RepoModel("npm", "20", <<"npm install">>, None, "npm test", <<>>, FALSE)
             EXCEPT !.env_vars = [CI |-> "true"]]}

GeneratorInit ==
    /\ pc = "generator"
    /\ max_iterations = 0
    /\ \E d \in GeneratorDescriptors : state = WithRepoModel(AgentState(FALSE, NoConfig), d)
    /\ config_model = Unset
    /\ iteration = 0
    /\ iteration_logs = <<>>
    /\ written = Unset
    /\ log_path = Unset
    /\ log_dir = Unset
    /\ analysis = Unset
    /\ ret = Unset
    /\ builds = 0
    /\ writes = 0
    /\ runs = 0
    /\ applied = <<>>
    /\ built = Unset
    /\ outcomes = <<>>
    /\ exit = Unset
    /\ run_success = Unset

\* generate (lines 39-57): the configuration is generated from the
\* descriptor in the state and stored in the state
CallGenerate ==
    /\ pc = "generator"
    /\ Len(outcomes) < MaxGenerations
    /\ \E c \in {_generate_config(state.repo_model)} :
           /\ config_model' = c
           /\ outcomes' = Append(outcomes, c)
           /\ state' = [state EXCEPT !.config_model = SomeConfig(c),
                                     !.config_generation_complete = TRUE]
    /\ UNCHANGED <<pc, max_iterations, iteration, iteration_logs, written, log_path,
                   log_dir, analysis, ret, builds, writes, runs, applied, built, exit, run_success>>

\* config_model.update_from_fix(fix) on the configuration generate returned
RepairGenerated ==
    /\ pc = "generator"
    /\ config_model # Unset
    /\ Len(applied) < MaxDirectives
    /\ \E fix \in GeneratorDirectives :
           /\ config_model' = update_from_fix(config_model, fix)
           /\ applied' = Append(applied, fix)
    /\ state' = [state EXCEPT !.repo_model = DescriptorAfter(state.repo_model, config_model')]
    /\ UNCHANGED <<pc, max_iterations, iteration, iteration_logs, written, log_path,
                   log_dir, analysis, ret, builds, writes, runs, built, outcomes, exit, run_success>>

\* write_constants_file (lines 176-192) on the configuration as it is now
WriteGenerated ==
    /\ pc = "generator"
    /\ config_model # Unset
    /\ written' = write_constants_file(config_model, written)
    /\ UNCHANGED <<pc, max_iterations, state, config_model, iteration, iteration_logs,
                   log_path, log_dir, analysis, ret, builds, writes, runs, applied, built,
                   outcomes, exit, run_success>>

GeneratorNext == CallGenerate \/ RepairGenerated \/ WriteGenerated

GeneratorSpec == GeneratorInit /\ [][GeneratorNext]_vars

InjectedEntry(first, c) ==
    [k \in DOMAIN to_constants_entry(first) |->
        CASE k = "install" -> c.install
          [] k = "test_cmd" -> first.test_cmd
          [] k = "docker_specs" -> c.docker_specs
          [] k = "build" -> c.build.cmds
          [] k = "apt-pkgs" -> c.apt_pkgs]

\* entry.get(key, []): the list under an optional key of an entry
EntryList(entry, key) == IF key \in DOMAIN entry THEN entry[key] ELSE <<>>

\* the entry holds what the configuration holds
Reflects(entry, c) ==
    /\ entry["install"] = c.install
    /\ entry["test_cmd"] = c.test_cmd
    /\ entry["docker_specs"] = c.docker_specs
    /\ EntryList(entry, "build") = BuildCommands(c)
    /\ EntryList(entry, "apt-pkgs") = c.apt_pkgs

\* C27: at every build the entry that was injected before the loop holds
\* the install, test_cmd, build, docker_specs and apt-pkgs of the current
\* configuration
C27_EntryFollowsDirectives ==
    pc = "build" => Reflects(InjectedEntry(state.config_model.value, config_model), config_model)

(***************************************************************************)
(* Properties of analyze_test_output and analyze_logs.                     *)
(***************************************************************************)
\* C28: for a test output that holds an install-failure marker and an
\* install-error signature, analyze_test_output returns the kind, the message
\* and the directive of the first install signature that matches, whatever
\* test-execution signatures the log holds beside it
C28_InstallDiagnosisKept ==
    (/\ pc = "analyze_test_output"
     /\ log_path.state = "ok"
     /\ InstallFailed(log_path.content)
     /\ FirstMatch(INSTALL_ERROR_PATTERNS, log_path.content) # None) =>
        analysis = InstallDiagnosis(log_path.content,
                                    FirstMatch(INSTALL_ERROR_PATTERNS, log_path.content))

\* C29: analyze_test_output returns error_type None only for a log that
\* holds a test-runner marker, no install-failure marker and no signature
\* of a test-execution failure
C29_SuccessNeedsCleanRun ==
    (/\ pc = "analyze_test_output"
     /\ log_path.state = "ok"
     /\ analysis.error_type = None) =>
        /\ TestsRan(log_path.content)
        /\ ~InstallFailed(log_path.content)
        /\ FirstMatch(TEST_ERROR_PATTERNS, log_path.content) = None

\* the classification of the first artifact, of the build log behind the
\* symlink, the test output and the run log, that reports an error; no error
\* when none of them does
FirstToReport(dir) ==
    LET build_analysis == analyze_build_log(dir.build_log)
        test_analysis == analyze_test_output(dir.test_output)
        run_analysis == analyze_run_log(dir.run_log)
    IN  IF /\ dir.image_build_dir = "symlink"
           /\ Exists(dir.build_log)
           /\ ReportsError(build_analysis)
        THEN build_analysis
        ELSE IF Exists(dir.test_output) /\ ReportsError(test_analysis) THEN test_analysis
        ELSE IF Exists(dir.run_log) /\ ReportsError(run_analysis) THEN run_analysis
        ELSE NoError

\* C30: analyze_logs returns the classification of the first of the build
\* log, the test output and the run log that reports an error, and no error
\* only when none of the three reports one
C30_FirstArtifactThatReports ==
    [][(pc = "classify" /\ AnalyzerReturns) => analysis' = FirstToReport(log_dir)]_vars

(***************************************************************************)
(* The order of the signatures.                                            *)
(***************************************************************************)
\* the first signature of the order, a sequence of names, that matches s
Earliest(order, s) ==
    order[Least({k \in 1..Len(order) : PatternSearch(order[k], s)})]

\* some signature of the order matches s
SomeMatches(order, s) == \E k \in 1..Len(order) : PatternSearch(order[k], s)

\* C31: a build log gets the kind and the directive of the first signature
\* that matches in the order missing_package, node_not_found, npm_not_found,
\* permission_denied, network_timeout, and of no other; a test output with
\* an install-failure marker gets the message and the directive of the first
\* that matches in the order missing_module, npm_error, version_conflict,
\* missing_python, gyp_error, missing_binary, and of no other
C31_FirstSignatureWins ==
    LET build_order == <<"missing_package", "node_not_found", "npm_not_found",
                         "permission_denied", "network_timeout">>
        install_order == <<"missing_module", "npm_error", "version_conflict",
                           "missing_python", "gyp_error", "missing_binary">>
    IN  /\ (BuildLogAnalyzed /\ SomeMatches(build_order, log_path.content)) =>
               /\ analysis.error_type = Earliest(build_order, log_path.content)
               /\ analysis = BuildDiagnosis(log_path.content,
                                            Earliest(build_order, log_path.content))
        /\ (/\ pc = "analyze_test_output"
            /\ log_path.state = "ok"
            /\ InstallFailed(log_path.content)
            /\ SomeMatches(install_order, log_path.content)) =>
               analysis = InstallDiagnosis(log_path.content,
                                           Earliest(install_order, log_path.content))

(***************************************************************************)
(* Properties of the retry after a directive.                              *)
(***************************************************************************)
RECURSIVE Repaired(_, _)
\* the configuration after the directives of a sequence, applied in order
Repaired(c, fixes) ==
    IF fixes = <<>> THEN c
    ELSE Repaired(update_from_fix(c, Head(fixes)), Tail(fixes))

\* iteration k ended in a failure with a directive
EndedWithDirective(k) == outcomes[k] \in {"build_fixed", "test_fixed"}

\* the number of iterations that ended in a failure with a directive
DirectiveIterations == Cardinality({k \in 1..Len(outcomes) : EndedWithDirective(k)})

\* C32 as stated: when the loop has returned, every iteration below the
\* budget that ended in a failure with a directive was followed by a build
\* attempt, and the number of directives applied is the number of such
\* iterations
C32_RetriedAfterDirective ==
    /\ Len(applied) = DirectiveIterations
    /\ pc = "return" =>
           \A k \in 1..Len(outcomes) :
               (EndedWithDirective(k) /\ k < max_iterations) => builds >= k + 1

\* C32: a classification with a directive makes the loop apply exactly that
\* directive; the iteration after it is started when the budget allows one,
\* and builds the configuration that the directives applied so far, in
\* order, make of the first one, unless its write fails, which ends the
\* session without a build; the number of directives applied is the number
\* of iterations that ended in a failure with a directive
C32_RetriedAfterDirectiveUnlessWriteFails ==
    /\ [](Len(applied) = DirectiveIterations)
    /\ [][(/\ pc \in {"build_failed", "classify"}
           /\ AnalyzerReturns
           /\ ~IsSuccess(analysis') /\ ~NoFixSuggested(analysis')) =>
              /\ applied' = Append(applied, analysis'.suggested_fix)
              /\ config_model' = update_from_fix(config_model, analysis'.suggested_fix)
              /\ pc' = "loop"]_vars
    /\ [][(pc = "loop" /\ iteration < max_iterations) =>
              pc' = "write" /\ iteration' = iteration + 1]_vars
    /\ [](pc = "build" =>
              /\ Len(applied) = iteration - 1
              /\ config_model = Repaired(state.config_model.value, applied))
    /\ [][pc = "build" => built' = config_model /\ builds' = builds + 1]_vars
    /\ [](pc = "return" =>
              \A k \in 1..Len(outcomes) :
                  (EndedWithDirective(k) /\ k < max_iterations) =>
                      /\ k < Len(outcomes)
                      /\ outcomes[k + 1] = "write_failed" \/ builds >= k + 1)

\* a second build is made on the configuration that a directive changed
C32_Witness ==
    /\ pc = "run" /\ iteration = 2
    /\ Len(applied) = 1
    /\ built = update_from_fix(state.config_model.value, applied[1])
    /\ built # state.config_model.value

(***************************************************************************)
(* The order of the steps of an iteration.                                 *)
(***************************************************************************)
\* the build of this iteration failed and its log is still to be analysed:
\* _build_images returned a log path with build_success false
BuildFailed == log_path # Unset

\* C33: the tests are run only in an iteration whose files were written and
\* whose build succeeded; after a failed build no run is made in that
\* iteration, and whatever the loop does next is the write of the next
\* iteration and then its build; an iteration goes write, build, run,
\* classify, apply and nothing is applied before the classification
C33_OrderWithinIteration ==
    /\ [][runs' # runs =>
              /\ pc = "run" /\ runs' = runs + 1 /\ pc' = "classify"
              /\ ~BuildFailed
              /\ writes = iteration /\ builds = iteration /\ runs < iteration]_vars
    /\ [][pc' = "run" => pc = "build" /\ builds' = builds + 1 /\ ~BuildFailed']_vars
    /\ [][builds' # builds =>
              /\ pc = "build" /\ writes = iteration /\ builds = iteration - 1
              /\ written = constants_file(config_model)]_vars
    /\ [][(pc = "build" /\ BuildFailed') => pc' = "build_failed" /\ runs' = runs]_vars
    /\ [][pc = "build_failed" =>
              /\ UNCHANGED <<runs, builds, writes>>
              /\ pc' \in {"loop", "return", "done"}]_vars
    /\ [][pc = "loop" =>
              /\ UNCHANGED <<runs, builds, writes, applied>>
              /\ \/ pc' = "write" /\ iteration' = iteration + 1
                 \/ pc' = "return"]_vars
    /\ [][pc = "write" =>
              /\ writes' = writes + 1 /\ UNCHANGED <<runs, builds, applied>>
              /\ pc' \in {"build", "return"}]_vars
    /\ [][pc' = "classify" => pc = "run"]_vars
    /\ [][applied' # applied =>
              /\ pc \in {"build_failed", "classify"} /\ analysis' # Unset
              /\ pc' = "loop"
              /\ UNCHANGED <<runs, builds, writes>>]_vars

\* a failed build with a directive was followed by a second iteration whose
\* build succeeded and whose tests are about to run, the only run so far
C33_Witness ==
    /\ pc = "run" /\ iteration = 2
    /\ outcomes = <<"build_fixed">>
    /\ builds = 2 /\ writes = 2 /\ runs = 0

(***************************************************************************)
(* The last entry of the iteration log.                                    *)
(***************************************************************************)
\* the entry that the loop appends when the range is used up (line 237)
MaxIterationsLine(n) == "Max iterations (" \o ToString(n) \o ") reached"

\* the last entry of a log, "" for an empty one
LastEntry(logs) == IF logs = <<>> THEN "" ELSE logs[Len(logs)]

\* the entry holds the error kind or the error message of a classification
NamesError(entry, a) ==
    \/ a.error_type # None /\ Contains(entry, a.error_type)
    \/ a.error_message # "" /\ Contains(entry, a.error_message)

\* C34: when the loop returns, the entry 'Max iterations (N) reached' is in
\* the iteration log exactly when all N iterations ended with a directive
\* applied; it is absent after a success and after a failure without a
\* directive, and the last entry of the latter names the error that was
\* left unresolved
C34_LastEntryTellsOutcome ==
    pc = "return" =>
        /\ (\E k \in 1..Len(ret.iteration_logs) :
                ret.iteration_logs[k] = MaxIterationsLine(max_iterations))
               <=> (Len(outcomes) = max_iterations /\ AllFixed)
        /\ LastEntry(ret.iteration_logs) = MaxIterationsLine(max_iterations)
               <=> (Len(outcomes) = max_iterations /\ AllFixed)
        /\ ret.success => LastEntry(ret.iteration_logs) = IterationLine(iteration, "Success!")
        /\ LastOutcome \in {"build_unrecoverable", "test_unrecoverable"} =>
               NamesError(LastEntry(ret.iteration_logs), analysis)

(***************************************************************************)
(* The `completed` flag of the run.                                        *)
(***************************************************************************)
\* C35: the step the loop takes after a run is the step that the
\* classification of the log directory alone decides, the same for every
\* value of the run's `completed` flag: two sessions that differ in that
\* flag only take the same steps, and a run that reported completed = False
\* ends in success when the log directory classifies to error_type None
C35_CompletedDoesNotSteer ==
    /\ [][(pc = "classify" /\ AnalyzerReturns) =>
              /\ analysis' = analyze_logs(log_dir)
              /\ StepsAs(analysis', IsSuccess(analysis'))
              /\ iteration_logs' = Append(iteration_logs, RunLine(iteration, analysis'))
              /\ outcomes' =
                     Append(outcomes,
                            IF IsSuccess(analysis') THEN "success"
                            ELSE IF NoFixSuggested(analysis') THEN "test_unrecoverable"
                            ELSE "test_fixed")
              /\ UNCHANGED <<writes, builds, runs, written, state, iteration>>]_vars
    /\ [][pc = "run" =>
              \A completed \in BOOLEAN, dir \in LogDirs :
                  ENABLED (RunTests /\ run_success' = RunResult(completed) /\ log_dir' = dir)]_vars
    /\ [][pc # "run" => (run_success' = run_success \/ run_success' = Unset)]_vars

\* the run reported completed = False and the session returned success
C35_Witness ==
    /\ pc = "return"
    /\ run_success = RunResult(FALSE)
    /\ ret.success
    /\ LastOutcome = "success"

(***************************************************************************)
(* run_workflow: the three stages in order.  The state starts as           *)
(* create_initial_state makes it; analyze and generate each return it with *)
(* their result or with an error recorded, and validate is the session of  *)
(* the loop above.                                                         *)
(***************************************************************************)
\* state["repo_model"] = None
NoRepoModel == [is_none |-> TRUE]

\* create_initial_state (state_model.py lines 79-101), the keys the stages use
create_initial_state ==
    [k \in DOMAIN AgentState(FALSE, NoConfig) \cup {"repo_model", "repo_analysis_complete"} |->
        CASE k = "repo_model" -> NoRepoModel
          [] k = "repo_analysis_complete" -> FALSE
          [] OTHER -> AgentState(FALSE, NoConfig)[k]]

\* the handler of `except Exception as e` of a stage: the error is recorded
\* in the state (repo_analyzer.py 61-66, config_generator.py 59-64)
StageError(s, stage, message) ==
    [s EXCEPT !.error_occurred = TRUE, !.error_message = message, !.error_stage = stage]

\* mutant: run_workflow goes on to the next stage whatever the state says
AfterStageGoesOn(s, next) == next

\* run_workflow, `if state.get("error_occurred"): return state` after a
\* stage (lines 95-97, 108-110): where the workflow goes with the state s
\* that the stage returned
AfterStage(s, next) == IF s.error_occurred THEN "done" ELSE next

WorkflowInit ==
    /\ pc = "analyze"
    /\ max_iterations \in 0..MaxIterations
    /\ state = create_initial_state
    /\ config_model = Unset
    /\ iteration = 0
    /\ iteration_logs = <<>>
    /\ written = Unset
    /\ log_path = Unset
    /\ log_dir = Unset
    /\ analysis = Unset
    /\ ret = Unset
    /\ builds = 0
    /\ writes = 0
    /\ runs = 0
    /\ applied = <<>>
    /\ built = Unset
    /\ outcomes = <<>>
    /\ exit = Unset
    /\ run_success = Unset

\* RepoAnalyzerAgent.analyze, lines 46-59: the descriptor is stored and the
\* analysis is marked complete
AnalyzeOk ==
    /\ pc = "analyze"
    /\ \E d \in Descriptors :
           state' = [state EXCEPT !.repo_model = d, !.repo_analysis_complete = TRUE]
    /\ pc' = AfterStage(state', "generate")
    /\ UNCHANGED <<max_iterations, config_model, iteration, iteration_logs, written,
                   log_path, log_dir, analysis, ret, builds, writes, runs, applied, built,
                   outcomes, exit, run_success>>

\* RepoAnalyzerAgent.analyze, lines 61-66: the clone or the analysis raised
AnalyzeFails ==
    /\ pc = "analyze"
    /\ state' = StageError(state, "analyze", "error")
    /\ pc' = AfterStage(state', "generate")
    /\ UNCHANGED <<max_iterations, config_model, iteration, iteration_logs, written,
                   log_path, log_dir, analysis, ret, builds, writes, runs, applied, built,
                   outcomes, exit, run_success>>

\* ConfigGeneratorAgent.generate, lines 37-57 and the handler for the two
\* ValueErrors of its preconditions
Generate ==
    /\ pc = "generate"
    /\ state' =
           IF ~state.repo_analysis_complete
           THEN StageError(state, "generate", "Repository analysis not complete")
           ELSE IF state.repo_model = NoRepoModel
           THEN StageError(state, "generate", "repo_model not found in state")
           ELSE [state EXCEPT !.config_model = SomeConfig(_generate_config(state.repo_model)),
                              !.config_generation_complete = TRUE]
    /\ pc' = AfterStage(state', "validate")
    /\ UNCHANGED <<max_iterations, config_model, iteration, iteration_logs, written,
                   log_path, log_dir, analysis, ret, builds, writes, runs, applied, built,
                   outcomes, exit, run_success>>

\* ConfigGeneratorAgent.generate, lines 59-64: an exception escapes
\* from_dict or _generate_config
GenerateRaises ==
    /\ pc = "generate"
    /\ state.repo_analysis_complete /\ state.repo_model # NoRepoModel
    /\ state' = StageError(state, "generate", "error")
    /\ pc' = AfterStage(state', "validate")
    /\ UNCHANGED <<max_iterations, config_model, iteration, iteration_logs, written,
                   log_path, log_dir, analysis, ret, builds, writes, runs, applied, built,
                   outcomes, exit, run_success>>

\* run_workflow, lines 89-139.  validate is called on a state whose
\* generation is complete, so its own precondition never fails here
WorkflowNext ==
    \/ AnalyzeOk
    \/ AnalyzeFails
    \/ Generate
    \/ GenerateRaises
    \/ ValidateStart
    \/ LoopNext
    \/ LoopExhausted
    \/ WriteOk
    \/ WriteFails
    \/ BuildOk
    \/ BuildFails
    \/ AnalyzeBuildFailure
    \/ RunTests
    \/ ClassifyRun
    \/ SessionRaises
    \/ ValidateReturn

WorkflowSpec == WorkflowInit /\ [][WorkflowNext]_vars

\* C36: generation starts only after an analysis without an error, and
\* validation only after a generation without an error; the workflow takes
\* no step once an error is recorded; nothing is written, built or run
\* unless both earlier stages completed; error_stage names the one stage
\* that failed, the first and only one
C36_StagesInOrder ==
    /\ [][pc' = "generate" =>
              pc = "analyze" /\ ~state'.error_occurred /\ state'.repo_analysis_complete]_vars
    /\ [][pc' = "validate" =>
              pc = "generate" /\ ~state'.error_occurred
                  /\ state'.config_generation_complete]_vars
    /\ [](pc = "validate" =>
              state.config_generation_complete /\ ~state.config_model.is_none)
    /\ [](state.error_occurred => pc = "done")
    /\ [][~state.error_occurred]_vars
    /\ [](state.error_occurred <=> state.error_stage # "")
    /\ [](state.error_stage \in {"", "analyze", "generate", "validate"})
    /\ [](state.error_stage = "analyze" =>
              ~state.repo_analysis_complete /\ ~state.config_generation_complete)
    /\ [](state.error_stage = "generate" =>
              state.repo_analysis_complete /\ ~state.config_generation_complete)
    /\ [](state.error_stage = "validate" =>
              state.repo_analysis_complete /\ state.config_generation_complete)
    /\ [](~state.config_generation_complete =>
              writes = 0 /\ builds = 0 /\ runs = 0 /\ written = Unset /\ config_model = Unset)
    /\ [](state.config_generation_complete => state.repo_analysis_complete)

\* the analysis completed, the generation failed, and the workflow returned
\* without a write, a build or a run
C36_Witness ==
    /\ pc = "done"
    /\ state.error_stage = "generate"
    /\ state.repo_analysis_complete
    /\ writes = 0 /\ builds = 0 /\ runs = 0

HasBuildCommand(repo_model) ==
    repo_model.build_command # None /\ repo_model.build_command # ""

\* C38: the build of a generated configuration is None unless the
\* descriptor has a build command and has_build_step is true, and then it is
\* the sequence of that one command; it is never an empty sequence
C38_BuildNoneOrOneCommand ==
    pc = "generator" =>
        \A i \in 1..Len(outcomes) :
            /\ IF state.repo_model.has_build_step /\ HasBuildCommand(state.repo_model)
               THEN /\ ~outcomes[i].build.is_none
                    /\ outcomes[i].build.cmds = <<state.repo_model.build_command>>
               ELSE outcomes[i].build.is_none
            /\ ~outcomes[i].build.is_none => Len(outcomes[i].build.cmds) = 1

\* a configuration was generated from a descriptor that has a build command
\* and has_build_step false, and its build is None
C38_Witness ==
    /\ pc = "generator"
    /\ Len(outcomes) >= 1
    /\ HasBuildCommand(state.repo_model)
    /\ ~state.repo_model.has_build_step
    /\ outcomes[1].build.is_none

(***************************************************************************)
(* The serialized entry.                                                   *)
(***************************************************************************)
\* the keys of an entry that hold the install commands, the test command,
\* the build parameters, the build steps and the OS packages
EntryKeys == {"install", "test_cmd", "docker_specs", "build", "apt-pkgs"}

\* C39: the entry written for a configuration holds its install commands,
\* its test command and its build parameters; it holds the build steps, the
\* OS packages and the environment variables each exactly when the
\* configuration has them set, with their value, and never under a key with
\* an empty or null value
C39_EntryCarriesSetFields ==
    [][written' # written =>
          LET entry == written'.entry
              c == config_model
          IN  /\ {"install", "test_cmd", "docker_specs"} \subseteq DOMAIN entry
              /\ entry["install"] = c.install
              /\ entry["test_cmd"] = c.test_cmd
              /\ entry["docker_specs"] = c.docker_specs
              /\ "build" \in DOMAIN entry <=> BuildCommands(c) # <<>>
              /\ "build" \in DOMAIN entry => entry["build"] = BuildCommands(c)
              /\ "apt-pkgs" \in DOMAIN entry <=> c.apt_pkgs # <<>>
              /\ "apt-pkgs" \in DOMAIN entry => entry["apt-pkgs"] = c.apt_pkgs
              /\ c.env_vars # <<>> =>
                     \E k \in DOMAIN entry \ EntryKeys : entry[k] = c.env_vars
              /\ c.env_vars = <<>> => DOMAIN entry \subseteq EntryKeys]_vars

====
